---------------------------- MODULE Spec2Model ----------------------------
(***************************************************************************)
(* Model of the AutoFix repair loop of src/app.py: the sandbox executor    *)
(* run_in_docker, the error classifier parse_error_type, the patch         *)
(* generators get_ai_fix / apply_basic_fix, the normaliser                 *)
(* clean_code_string and the repair loop of main.                          *)
(*                                                                         *)
(* Text is modelled as a sequence of characters.  A printable ASCII        *)
(* character is the one-character string of itself, tab, newline, carriage *)
(* return and form feed are "\t", "\n", "\r" and "\f", and every other     *)
(* character, and the backquote, is the string "U+" followed by the four   *)
(* hexadecimal digits of its code point: "U+00E9" is e with acute,         *)
(* "U+000B" the vertical tab, "U+274C" the cross mark of the out-of-memory *)
(* diagnostic, "U+0060" the backquote.  The alphabet of the model is       *)
(* ASCII, every whitespace character of Unicode, Latin-1 Supplement and    *)
(* Latin Extended-A (U+00A0 to U+017F), the Arabic-Indic digits (U+0660 to *)
(* U+0669), the characters upper() and lower() take these to, and U+274C;  *)
(* the tables below give Python's classification and case mapping of these *)
(* characters.  Python's None is the one-element sequence <<"None">>,      *)
(* which no text equals, so that it can stand where a text is expected.    *)
(***************************************************************************)
EXTENDS Integers, Sequences, FiniteSets, TLC

(***************************************************************************)
(* Python string primitives                                                *)
(***************************************************************************)
NL == "\n"
None == <<"None">>

\* the characters of the alphabet that \w of the re module matches (str patterns
\* are compiled without re.ASCII)
WordChars ==
    {"0", "1", "2", "3", "4", "5", "6", "7", "8", "9", "A", "B", "C", "D", "E", "F", "G",
     "H", "I", "J", "K", "L", "M", "N", "O", "P", "Q", "R", "S", "T", "U", "V", "W", "X",
     "Y", "Z", "_", "a", "b", "c", "d", "e", "f", "g", "h", "i", "j", "k", "l", "m", "n",
     "o", "p", "q", "r", "s", "t", "u", "v", "w", "x", "y", "z", "U+00AA", "U+00B2",
     "U+00B3", "U+00B5", "U+00B9", "U+00BA", "U+00BC", "U+00BD", "U+00BE", "U+00C0",
     "U+00C1", "U+00C2", "U+00C3", "U+00C4", "U+00C5", "U+00C6", "U+00C7", "U+00C8",
     "U+00C9", "U+00CA", "U+00CB", "U+00CC", "U+00CD", "U+00CE", "U+00CF", "U+00D0",
     "U+00D1", "U+00D2", "U+00D3", "U+00D4", "U+00D5", "U+00D6", "U+00D8", "U+00D9",
     "U+00DA", "U+00DB", "U+00DC", "U+00DD", "U+00DE", "U+00DF", "U+00E0", "U+00E1",
     "U+00E2", "U+00E3", "U+00E4", "U+00E5", "U+00E6", "U+00E7", "U+00E8", "U+00E9",
     "U+00EA", "U+00EB", "U+00EC", "U+00ED", "U+00EE", "U+00EF", "U+00F0", "U+00F1",
     "U+00F2", "U+00F3", "U+00F4", "U+00F5", "U+00F6", "U+00F8", "U+00F9", "U+00FA",
     "U+00FB", "U+00FC", "U+00FD", "U+00FE", "U+00FF", "U+0100", "U+0101", "U+0102",
     "U+0103", "U+0104", "U+0105", "U+0106", "U+0107", "U+0108", "U+0109", "U+010A",
     "U+010B", "U+010C", "U+010D", "U+010E", "U+010F", "U+0110", "U+0111", "U+0112",
     "U+0113", "U+0114", "U+0115", "U+0116", "U+0117", "U+0118", "U+0119", "U+011A",
     "U+011B", "U+011C", "U+011D", "U+011E", "U+011F", "U+0120", "U+0121", "U+0122",
     "U+0123", "U+0124", "U+0125", "U+0126", "U+0127", "U+0128", "U+0129", "U+012A",
     "U+012B", "U+012C", "U+012D", "U+012E", "U+012F", "U+0130", "U+0131", "U+0132",
     "U+0133", "U+0134", "U+0135", "U+0136", "U+0137", "U+0138", "U+0139", "U+013A",
     "U+013B", "U+013C", "U+013D", "U+013E", "U+013F", "U+0140", "U+0141", "U+0142",
     "U+0143", "U+0144", "U+0145", "U+0146", "U+0147", "U+0148", "U+0149", "U+014A",
     "U+014B", "U+014C", "U+014D", "U+014E", "U+014F", "U+0150", "U+0151", "U+0152",
     "U+0153", "U+0154", "U+0155", "U+0156", "U+0157", "U+0158", "U+0159", "U+015A",
     "U+015B", "U+015C", "U+015D", "U+015E", "U+015F", "U+0160", "U+0161", "U+0162",
     "U+0163", "U+0164", "U+0165", "U+0166", "U+0167", "U+0168", "U+0169", "U+016A",
     "U+016B", "U+016C", "U+016D", "U+016E", "U+016F", "U+0170", "U+0171", "U+0172",
     "U+0173", "U+0174", "U+0175", "U+0176", "U+0177", "U+0178", "U+0179", "U+017A",
     "U+017B", "U+017C", "U+017D", "U+017E", "U+017F", "U+02BC", "U+039C", "U+03BC",
     "U+0660", "U+0661", "U+0662", "U+0663", "U+0664", "U+0665", "U+0666", "U+0667",
     "U+0668", "U+0669"}

\* the characters \s of the re module matches and str.strip() removes: every
\* character for which str.isspace() holds
SpaceChars ==
    {"\t", "\n", "U+000B", "\f", "\r", "U+001C", "U+001D", "U+001E", "U+001F", " ",
     "U+0085", "U+00A0", "U+1680", "U+2000", "U+2001", "U+2002", "U+2003", "U+2004",
     "U+2005", "U+2006", "U+2007", "U+2008", "U+2009", "U+200A", "U+2028", "U+2029",
     "U+202F", "U+205F", "U+3000"}

\* the characters \d of the re module matches, each with the decimal digit
\* int() reads it as
DigitValues ==
    "0" :> <<"0">> @@ "1" :> <<"1">> @@ "2" :> <<"2">> @@ "3" :> <<"3">> @@
    "4" :> <<"4">> @@ "5" :> <<"5">> @@ "6" :> <<"6">> @@ "7" :> <<"7">> @@
    "8" :> <<"8">> @@ "9" :> <<"9">> @@ "U+0660" :> <<"0">> @@ "U+0661" :> <<"1">> @@
    "U+0662" :> <<"2">> @@ "U+0663" :> <<"3">> @@ "U+0664" :> <<"4">> @@
    "U+0665" :> <<"5">> @@ "U+0666" :> <<"6">> @@ "U+0667" :> <<"7">> @@
    "U+0668" :> <<"8">> @@ "U+0669" :> <<"9">>

\* c.upper() for the characters of the alphabet it changes
UpperTable ==
    "a" :> <<"A">> @@ "b" :> <<"B">> @@ "c" :> <<"C">> @@ "d" :> <<"D">> @@
    "e" :> <<"E">> @@ "f" :> <<"F">> @@ "g" :> <<"G">> @@ "h" :> <<"H">> @@
    "i" :> <<"I">> @@ "j" :> <<"J">> @@ "k" :> <<"K">> @@ "l" :> <<"L">> @@
    "m" :> <<"M">> @@ "n" :> <<"N">> @@ "o" :> <<"O">> @@ "p" :> <<"P">> @@
    "q" :> <<"Q">> @@ "r" :> <<"R">> @@ "s" :> <<"S">> @@ "t" :> <<"T">> @@
    "u" :> <<"U">> @@ "v" :> <<"V">> @@ "w" :> <<"W">> @@ "x" :> <<"X">> @@
    "y" :> <<"Y">> @@ "z" :> <<"Z">> @@ "U+00B5" :> <<"U+039C">> @@
    "U+00DF" :> <<"S", "S">> @@ "U+00E0" :> <<"U+00C0">> @@ "U+00E1" :> <<"U+00C1">> @@
    "U+00E2" :> <<"U+00C2">> @@ "U+00E3" :> <<"U+00C3">> @@ "U+00E4" :> <<"U+00C4">> @@
    "U+00E5" :> <<"U+00C5">> @@ "U+00E6" :> <<"U+00C6">> @@ "U+00E7" :> <<"U+00C7">> @@
    "U+00E8" :> <<"U+00C8">> @@ "U+00E9" :> <<"U+00C9">> @@ "U+00EA" :> <<"U+00CA">> @@
    "U+00EB" :> <<"U+00CB">> @@ "U+00EC" :> <<"U+00CC">> @@ "U+00ED" :> <<"U+00CD">> @@
    "U+00EE" :> <<"U+00CE">> @@ "U+00EF" :> <<"U+00CF">> @@ "U+00F0" :> <<"U+00D0">> @@
    "U+00F1" :> <<"U+00D1">> @@ "U+00F2" :> <<"U+00D2">> @@ "U+00F3" :> <<"U+00D3">> @@
    "U+00F4" :> <<"U+00D4">> @@ "U+00F5" :> <<"U+00D5">> @@ "U+00F6" :> <<"U+00D6">> @@
    "U+00F8" :> <<"U+00D8">> @@ "U+00F9" :> <<"U+00D9">> @@ "U+00FA" :> <<"U+00DA">> @@
    "U+00FB" :> <<"U+00DB">> @@ "U+00FC" :> <<"U+00DC">> @@ "U+00FD" :> <<"U+00DD">> @@
    "U+00FE" :> <<"U+00DE">> @@ "U+00FF" :> <<"U+0178">> @@ "U+0101" :> <<"U+0100">> @@
    "U+0103" :> <<"U+0102">> @@ "U+0105" :> <<"U+0104">> @@ "U+0107" :> <<"U+0106">> @@
    "U+0109" :> <<"U+0108">> @@ "U+010B" :> <<"U+010A">> @@ "U+010D" :> <<"U+010C">> @@
    "U+010F" :> <<"U+010E">> @@ "U+0111" :> <<"U+0110">> @@ "U+0113" :> <<"U+0112">> @@
    "U+0115" :> <<"U+0114">> @@ "U+0117" :> <<"U+0116">> @@ "U+0119" :> <<"U+0118">> @@
    "U+011B" :> <<"U+011A">> @@ "U+011D" :> <<"U+011C">> @@ "U+011F" :> <<"U+011E">> @@
    "U+0121" :> <<"U+0120">> @@ "U+0123" :> <<"U+0122">> @@ "U+0125" :> <<"U+0124">> @@
    "U+0127" :> <<"U+0126">> @@ "U+0129" :> <<"U+0128">> @@ "U+012B" :> <<"U+012A">> @@
    "U+012D" :> <<"U+012C">> @@ "U+012F" :> <<"U+012E">> @@ "U+0131" :> <<"I">> @@
    "U+0133" :> <<"U+0132">> @@ "U+0135" :> <<"U+0134">> @@ "U+0137" :> <<"U+0136">> @@
    "U+013A" :> <<"U+0139">> @@ "U+013C" :> <<"U+013B">> @@ "U+013E" :> <<"U+013D">> @@
    "U+0140" :> <<"U+013F">> @@ "U+0142" :> <<"U+0141">> @@ "U+0144" :> <<"U+0143">> @@
    "U+0146" :> <<"U+0145">> @@ "U+0148" :> <<"U+0147">> @@ "U+0149" :> <<"U+02BC", "N">> @@
    "U+014B" :> <<"U+014A">> @@ "U+014D" :> <<"U+014C">> @@ "U+014F" :> <<"U+014E">> @@
    "U+0151" :> <<"U+0150">> @@ "U+0153" :> <<"U+0152">> @@ "U+0155" :> <<"U+0154">> @@
    "U+0157" :> <<"U+0156">> @@ "U+0159" :> <<"U+0158">> @@ "U+015B" :> <<"U+015A">> @@
    "U+015D" :> <<"U+015C">> @@ "U+015F" :> <<"U+015E">> @@ "U+0161" :> <<"U+0160">> @@
    "U+0163" :> <<"U+0162">> @@ "U+0165" :> <<"U+0164">> @@ "U+0167" :> <<"U+0166">> @@
    "U+0169" :> <<"U+0168">> @@ "U+016B" :> <<"U+016A">> @@ "U+016D" :> <<"U+016C">> @@
    "U+016F" :> <<"U+016E">> @@ "U+0171" :> <<"U+0170">> @@ "U+0173" :> <<"U+0172">> @@
    "U+0175" :> <<"U+0174">> @@ "U+0177" :> <<"U+0176">> @@ "U+017A" :> <<"U+0179">> @@
    "U+017C" :> <<"U+017B">> @@ "U+017E" :> <<"U+017D">> @@ "U+017F" :> <<"S">> @@
    "U+03BC" :> <<"U+039C">>

\* c.lower() for the characters of the alphabet it changes
LowerTable ==
    "A" :> <<"a">> @@ "B" :> <<"b">> @@ "C" :> <<"c">> @@ "D" :> <<"d">> @@
    "E" :> <<"e">> @@ "F" :> <<"f">> @@ "G" :> <<"g">> @@ "H" :> <<"h">> @@
    "I" :> <<"i">> @@ "J" :> <<"j">> @@ "K" :> <<"k">> @@ "L" :> <<"l">> @@
    "M" :> <<"m">> @@ "N" :> <<"n">> @@ "O" :> <<"o">> @@ "P" :> <<"p">> @@
    "Q" :> <<"q">> @@ "R" :> <<"r">> @@ "S" :> <<"s">> @@ "T" :> <<"t">> @@
    "U" :> <<"u">> @@ "V" :> <<"v">> @@ "W" :> <<"w">> @@ "X" :> <<"x">> @@
    "Y" :> <<"y">> @@ "Z" :> <<"z">> @@ "U+00C0" :> <<"U+00E0">> @@
    "U+00C1" :> <<"U+00E1">> @@ "U+00C2" :> <<"U+00E2">> @@ "U+00C3" :> <<"U+00E3">> @@
    "U+00C4" :> <<"U+00E4">> @@ "U+00C5" :> <<"U+00E5">> @@ "U+00C6" :> <<"U+00E6">> @@
    "U+00C7" :> <<"U+00E7">> @@ "U+00C8" :> <<"U+00E8">> @@ "U+00C9" :> <<"U+00E9">> @@
    "U+00CA" :> <<"U+00EA">> @@ "U+00CB" :> <<"U+00EB">> @@ "U+00CC" :> <<"U+00EC">> @@
    "U+00CD" :> <<"U+00ED">> @@ "U+00CE" :> <<"U+00EE">> @@ "U+00CF" :> <<"U+00EF">> @@
    "U+00D0" :> <<"U+00F0">> @@ "U+00D1" :> <<"U+00F1">> @@ "U+00D2" :> <<"U+00F2">> @@
    "U+00D3" :> <<"U+00F3">> @@ "U+00D4" :> <<"U+00F4">> @@ "U+00D5" :> <<"U+00F5">> @@
    "U+00D6" :> <<"U+00F6">> @@ "U+00D8" :> <<"U+00F8">> @@ "U+00D9" :> <<"U+00F9">> @@
    "U+00DA" :> <<"U+00FA">> @@ "U+00DB" :> <<"U+00FB">> @@ "U+00DC" :> <<"U+00FC">> @@
    "U+00DD" :> <<"U+00FD">> @@ "U+00DE" :> <<"U+00FE">> @@ "U+0100" :> <<"U+0101">> @@
    "U+0102" :> <<"U+0103">> @@ "U+0104" :> <<"U+0105">> @@ "U+0106" :> <<"U+0107">> @@
    "U+0108" :> <<"U+0109">> @@ "U+010A" :> <<"U+010B">> @@ "U+010C" :> <<"U+010D">> @@
    "U+010E" :> <<"U+010F">> @@ "U+0110" :> <<"U+0111">> @@ "U+0112" :> <<"U+0113">> @@
    "U+0114" :> <<"U+0115">> @@ "U+0116" :> <<"U+0117">> @@ "U+0118" :> <<"U+0119">> @@
    "U+011A" :> <<"U+011B">> @@ "U+011C" :> <<"U+011D">> @@ "U+011E" :> <<"U+011F">> @@
    "U+0120" :> <<"U+0121">> @@ "U+0122" :> <<"U+0123">> @@ "U+0124" :> <<"U+0125">> @@
    "U+0126" :> <<"U+0127">> @@ "U+0128" :> <<"U+0129">> @@ "U+012A" :> <<"U+012B">> @@
    "U+012C" :> <<"U+012D">> @@ "U+012E" :> <<"U+012F">> @@ "U+0130" :> <<"i", "U+0307">> @@
    "U+0132" :> <<"U+0133">> @@ "U+0134" :> <<"U+0135">> @@ "U+0136" :> <<"U+0137">> @@
    "U+0139" :> <<"U+013A">> @@ "U+013B" :> <<"U+013C">> @@ "U+013D" :> <<"U+013E">> @@
    "U+013F" :> <<"U+0140">> @@ "U+0141" :> <<"U+0142">> @@ "U+0143" :> <<"U+0144">> @@
    "U+0145" :> <<"U+0146">> @@ "U+0147" :> <<"U+0148">> @@ "U+014A" :> <<"U+014B">> @@
    "U+014C" :> <<"U+014D">> @@ "U+014E" :> <<"U+014F">> @@ "U+0150" :> <<"U+0151">> @@
    "U+0152" :> <<"U+0153">> @@ "U+0154" :> <<"U+0155">> @@ "U+0156" :> <<"U+0157">> @@
    "U+0158" :> <<"U+0159">> @@ "U+015A" :> <<"U+015B">> @@ "U+015C" :> <<"U+015D">> @@
    "U+015E" :> <<"U+015F">> @@ "U+0160" :> <<"U+0161">> @@ "U+0162" :> <<"U+0163">> @@
    "U+0164" :> <<"U+0165">> @@ "U+0166" :> <<"U+0167">> @@ "U+0168" :> <<"U+0169">> @@
    "U+016A" :> <<"U+016B">> @@ "U+016C" :> <<"U+016D">> @@ "U+016E" :> <<"U+016F">> @@
    "U+0170" :> <<"U+0171">> @@ "U+0172" :> <<"U+0173">> @@ "U+0174" :> <<"U+0175">> @@
    "U+0176" :> <<"U+0177">> @@ "U+0178" :> <<"U+00FF">> @@ "U+0179" :> <<"U+017A">> @@
    "U+017B" :> <<"U+017C">> @@ "U+017D" :> <<"U+017E">> @@ "U+039C" :> <<"U+03BC">>

Range(f) == {f[i] : i \in DOMAIN f}

\* \w of the re module
IsWord(c) == c \in WordChars
\* \s of the re module and the characters str.strip() removes
IsSpace(c) == c \in SpaceChars

\* c.lower() and c.upper(), as texts: the result can hold two characters
LowerChar(c) == IF c \in DOMAIN LowerTable THEN LowerTable[c] ELSE <<c>>
UpperChar(c) == IF c \in DOMAIN UpperTable THEN UpperTable[c] ELSE <<c>>

Min(S) == CHOOSE m \in S : \A n \in S : m <= n
Max(S) == CHOOSE m \in S : \A n \in S : m >= n

\* s[i:] and s[i:j] with 1-based inclusive positions
From(s, i) == SubSeq(s, i, Len(s))
\* does p occur in s starting at position i
At(s, i, p) == /\ i >= 1
               /\ i + Len(p) - 1 <= Len(s)
               /\ SubSeq(s, i, i + Len(p) - 1) = p
\* p in s
Contains(s, p) == \E i \in 1..(Len(s) - Len(p) + 1) : At(s, i, p)
\* s.startswith(p)
StartsWith(s, p) == At(s, 1, p)
\* 1 + s.find(p, i - 1): the first position >= i where p occurs, 0 if none
FindFrom(s, i, p) ==
    LET hits == {k \in i..(Len(s) - Len(p) + 1) : At(s, k, p)}
    IN IF hits = {} THEN 0 ELSE Min(hits)

\* s.replace(old, new): left to right, non-overlapping (old is non-empty)
RECURSIVE ReplaceFrom(_, _, _, _)
ReplaceFrom(s, i, old, new) ==
    LET k == FindFrom(s, i, old)
    IN IF k = 0 THEN From(s, i)
       ELSE SubSeq(s, i, k - 1) \o new \o ReplaceFrom(s, k + Len(old), old, new)
Replace(s, old, new) == ReplaceFrom(s, 1, old, new)

\* s.split('\n'): always at least one piece
RECURSIVE SplitFrom(_, _, _)
SplitFrom(s, i, sep) ==
    LET k == FindFrom(s, i, sep)
    IN IF k = 0 THEN <<From(s, i)>>
       ELSE <<SubSeq(s, i, k - 1)>> \o SplitFrom(s, k + Len(sep), sep)
Split(s, sep) == SplitFrom(s, 1, sep)

\* sep.join(parts)
RECURSIVE Join(_, _)
Join(parts, sep) ==
    IF Len(parts) = 0 THEN <<>>
    ELSE IF Len(parts) = 1 THEN parts[1]
    ELSE parts[1] \o sep \o Join(Tail(parts), sep)

\* the text whose characters are those of parts[1], parts[2], ... in this
\* order, every part being one or two characters
CaseMapped(parts) ==
    LET doubled == {j \in 1..Len(parts) : Len(parts[j]) = 2}
        Upto(i) == i + Cardinality({j \in doubled : j <= i})
    IN IF doubled = {} THEN [i \in 1..Len(parts) |-> parts[i][1]]
       ELSE [k \in 1..Upto(Len(parts)) |->
               LET i == CHOOSE i \in 1..Len(parts) : Upto(i - 1) < k /\ k <= Upto(i)
               IN parts[i][k - Upto(i - 1)]]

\* str.lower() and str.upper()
Lower(s) == CaseMapped([i \in 1..Len(s) |-> LowerChar(s[i])])
Upper(s) == CaseMapped([i \in 1..Len(s) |-> UpperChar(s[i])])

\* number of leading whitespace characters: len(s) - len(s.lstrip())
LeadingSpaces(s) ==
    IF \A i \in 1..Len(s) : IsSpace(s[i]) THEN Len(s)
    ELSE Min({i \in 1..Len(s) : ~IsSpace(s[i])}) - 1
\* s.lstrip(), s.rstrip(), s.strip()
LStrip(s) == From(s, LeadingSpaces(s) + 1)
RStrip(s) ==
    IF \A i \in 1..Len(s) : IsSpace(s[i]) THEN <<>>
    ELSE SubSeq(s, 1, Max({i \in 1..Len(s) : ~IsSpace(s[i])}))
Strip(s) == LStrip(RStrip(s))
\* ' ' * n
Spaces(n) == [i \in 1..n |-> " "]

\* the end of the longest run of \w characters starting at i (i - 1 if none)
WordEnd(s, i) ==
    Min({k \in i..Len(s) : ~IsWord(s[k])} \cup {Max({i, Len(s) + 1})}) - 1
\* the end of the longest run of \s characters starting at i (i - 1 if none)
SpaceEnd(s, i) ==
    Min({k \in i..Len(s) : ~IsSpace(s[k])} \cup {Max({i, Len(s) + 1})}) - 1

\* the first of the candidates that is not None, None when all are
FirstFound(candidates) ==
    LET found == {i \in DOMAIN candidates : candidates[i] # None}
    IN IF found = {} THEN None ELSE candidates[Min(found)]

(***************************************************************************)
(* Error classifier                                                        *)
(***************************************************************************)
\* re.search(r"(\w+SUFFIX):", s): the group of the leftmost match, None
\* without one.  The match is the first maximal run of word characters that
\* ends in the suffix, has at least one character before it, and is followed
\* by a colon.
SearchSuffixed(s, suffix) ==
    LET hits == {k \in 2..Len(s) : At(s, k, suffix \o <<":">>) /\ IsWord(s[k - 1])}
        k0 == Min(hits)
        start == 1 + Max({0} \cup {j \in 1..(k0 - 1) : ~IsWord(s[j])})
    IN IF hits = {} THEN None ELSE SubSeq(s, start, k0 + Len(suffix) - 1)

\* ClassifyMessage whose last resort is the category of blank logs
ClassifyMessage_Unknown(error_log) ==
    IF Contains(Upper(error_log), <<"T","I","M","E","O","U","T">> (* TIMEOUT *)) THEN <<"T",
                                                                                        "i",
                                                                                        "m",
                                                                                        "e",
                                                                                        "o",
                                                                                        "u",
                                                                                        "t",
                                                                                        "E",
                                                                                        "r",
                                                                                        "r",
                                                                                        "o",
                                                                                        "r">>
                                                                                        (* TimeoutError *)
    ELSE IF Contains(error_log, <<"1","3","7">> (* 137 *)) \/ Contains(error_log, <<"O","u",
                                                                                    "t"," ",
                                                                                    "o","f",
                                                                                    " ","M",
                                                                                    "e","m",
                                                                                    "o","r",
                                                                                    "y">> (* Out of Memory *))
      THEN <<"M","e","m","o","r","y","E","r","r","o","r">> (* MemoryError *)
    ELSE IF Contains(error_log, <<"N","o"," ","m","o","d","u","l","e"," ","n","a","m","e",
                                  "d">> (* No module named *)) THEN <<"M","o","d","u","l",
                                                                      "e","N","o","t","F",
                                                                      "o","u","n","d","E",
                                                                      "r","r","o","r">>
                                                                      (* ModuleNotFoundError *)
    ELSE <<"U","n","k","n","o","w","n","E","r","r","o","r">> (* UnknownError *)

\* lines 594-602: the classification by the words of the message
ClassifyMessage(error_log) ==
    IF Contains(Upper(error_log), <<"T","I","M","E","O","U","T">> (* TIMEOUT *)) THEN <<"T",
                                                                                        "i",
                                                                                        "m",
                                                                                        "e",
                                                                                        "o",
                                                                                        "u",
                                                                                        "t",
                                                                                        "E",
                                                                                        "r",
                                                                                        "r",
                                                                                        "o",
                                                                                        "r">>
                                                                                        (* TimeoutError *)
    ELSE IF Contains(error_log, <<"1","3","7">> (* 137 *)) \/ Contains(error_log, <<"O","u",
                                                                                    "t"," ",
                                                                                    "o","f",
                                                                                    " ","M",
                                                                                    "e","m",
                                                                                    "o","r",
                                                                                    "y">> (* Out of Memory *))
      THEN <<"M","e","m","o","r","y","E","r","r","o","r">> (* MemoryError *)
    ELSE IF Contains(error_log, <<"N","o"," ","m","o","d","u","l","e"," ","n","a","m","e",
                                  "d">> (* No module named *)) THEN <<"M","o","d","u","l",
                                                                      "e","N","o","t","F",
                                                                      "o","u","n","d","E",
                                                                      "r","r","o","r">>
                                                                      (* ModuleNotFoundError *)
    ELSE <<"R","u","n","t","i","m","e","E","r","r","o","r">> (* RuntimeError *)

parse_error_type(error_log) ==
    IF Len(error_log) = 0 \/ Len(Strip(error_log)) = 0 THEN <<"U","n","k","n","o","w","n",
                                                              "E","r","r","o","r">> (* UnknownError *)
    ELSE FirstFound(<< SearchSuffixed(error_log, <<"E","r","r","o","r">> (* Error *)),
                       SearchSuffixed(error_log, <<"E","x","c","e","p","t","i","o","n">> (* Exception *)),
                       SearchSuffixed(error_log, <<"W","a","r","n","i","n","g">> (* Warning *)),
                       ClassifyMessage(error_log) >>)

\* [line for line in output.split('\n') if line.strip()]
extract_logs_from_output(output) ==
    SelectSeq(Split(output, <<NL>>), LAMBDA line : Len(Strip(line)) > 0)

(***************************************************************************)
(* clean_code_string                                                       *)
(***************************************************************************)
\* re.sub(fence + r'\s*\n?', '', s): every occurrence of the fence is removed
\* together with the whitespace that follows it
RECURSIVE RemoveFence(_, _, _)
RemoveFence(s, i, fence) ==
    LET k == FindFrom(s, i, fence)
    IN IF k = 0 THEN From(s, i)
       ELSE SubSeq(s, i, k - 1) \o RemoveFence(s, SpaceEnd(s, k + Len(fence)) + 1, fence)

\* while lines and not lines[0].strip(): lines.pop(0)
RECURSIVE DropBlankHead(_)
DropBlankHead(lines) ==
    IF Len(lines) > 0 /\ Len(Strip(lines[1])) = 0 THEN DropBlankHead(Tail(lines))
    ELSE lines
\* while lines and not lines[-1].strip(): lines.pop()
RECURSIVE DropBlankTail(_)
DropBlankTail(lines) ==
    IF Len(lines) > 0 /\ Len(Strip(lines[Len(lines)])) = 0
      THEN DropBlankTail(SubSeq(lines, 1, Len(lines) - 1))
    ELSE lines

\* lines 1108-1110: the markdown fences are removed
RemoveFences(code) ==
    IF Contains(code, <<"U+0060","U+0060","U+0060">> (* ``` *))
      THEN RemoveFence(RemoveFence(code, 1, <<"U+0060","U+0060","U+0060","p","y","t","h",
                                              "o","n">> (* ```python *)), 1, <<"U+0060",
                                                                               "U+0060",
                                                                               "U+0060">> (* ``` *))
    ELSE code

\* lines 1114-1131: the escape sequences an answer may carry as text
Unescape(code) ==
    Replace(
      Replace(
        Replace(
          Replace(
            Replace(
              Replace(
                Replace(IF ~Contains(code, <<NL>>) /\ Contains(code, <<"\\", "n">>)
                          THEN Replace(code, <<"\\", "n">>, <<NL>>)
                        ELSE code,
                        <<"\\", "n">>, <<NL>>),
                <<"\\", "'">>, <<"'">>),
              <<"\\", "\"">>, <<"\"">>),
            <<"\\", "t">>, Spaces(4)),
          <<"\t">>, Spaces(4)),
        <<"\\", "r">>, <<>>),
      <<"\r">>, <<>>)

clean_code_string(code) ==
    IF code = None \/ Len(code) = 0 THEN code
    ELSE Join(DropBlankTail(DropBlankHead(Split(Unescape(RemoveFences(code)), <<NL>>))),
              <<NL>>)

(***************************************************************************)
(* apply_basic_fix: the rule-based fallback.  The result is the triple     *)
(* (explanation, fixed_code, reasoning) as a record.                       *)
(***************************************************************************)
\* re.search(prefix + r"(\w+)" + suffix, s): the group of the leftmost match,
\* None without one (the suffix starts with a character that is not \w)
SearchQuotedName(s, prefix, suffix) ==
    LET hits == {k \in 1..Len(s) :
                    /\ At(s, k, prefix)
                    /\ WordEnd(s, k + Len(prefix)) >= k + Len(prefix)
                    /\ At(s, WordEnd(s, k + Len(prefix)) + 1, suffix)}
    IN IF hits = {} THEN None
       ELSE SubSeq(s, Min(hits) + Len(prefix), WordEnd(s, Min(hits) + Len(prefix)))

\* WrapDivision that leaves every line as it is
WrapDivision_Bare(line) == <<line>>

\* the ZeroDivisionError rule for one line
WrapDivision(line) ==
    LET indent == LeadingSpaces(line)
    IN IF /\ Contains(line, <<"/">>)
          /\ Contains(line, <<"=">>)
          /\ ~Contains(line, <<"e","x","c","e","p","t">> (* except *))
         THEN << Spaces(indent) \o <<"t","r","y",":">> (* try: *),
                 Spaces(indent) \o Spaces(4) \o LStrip(line),
                 Spaces(indent) \o <<"e","x","c","e","p","t"," ","Z","e","r","o","D","i",
                                     "v","i","s","i","o","n","E","r","r","o","r",":">>
                                     (* except ZeroDivisionError: *),
                 Spaces(indent) \o <<" "," "," "," ","p","r","i","n","t","(","\"","E","r",
                                     "r","o","r",":"," ","D","i","v","i","s","i","o","n",
                                     " ","b","y"," ","z","e","r","o","\"",")">>
                                     (*     print(\"Error: Division by zero\") *) >>
       ELSE <<line>>

RECURSIVE WrapDivisions(_)
WrapDivisions(lines) ==
    IF Len(lines) = 0 THEN <<>>
    ELSE WrapDivision(lines[1]) \o WrapDivisions(Tail(lines))

\* the loop of the IndentationError rule from line i on, with the loop's flags
RECURSIVE FixIndentation(_, _, _, _, _)
FixIndentation(lines, i, in_class, in_method, prev_line_was_class) ==
    IF i > Len(lines) THEN <<>>
    ELSE
      LET line == lines[i]
          stripped == LStrip(line)
          current_indent == Len(line) - Len(stripped)
          left_class == in_class /\ ~in_method /\ current_indent = 0
          cls == IF left_class THEN FALSE ELSE in_class
          meth == IF left_class THEN FALSE ELSE in_method
      IN IF Len(stripped) = 0
           THEN <<<<>>>> \o FixIndentation(lines, i + 1, in_class, in_method, FALSE)
         ELSE IF StartsWith(stripped, <<"c","l","a","s","s"," ">> (* class  *))
           THEN <<line>> \o FixIndentation(lines, i + 1, TRUE, FALSE, TRUE)
         ELSE IF StartsWith(stripped, <<"d","e","f"," ">> (* def  *))
           THEN IF prev_line_was_class \/ (in_class /\ current_indent = 0)
                  THEN <<Spaces(4) \o stripped>>
                         \o FixIndentation(lines, i + 1, TRUE, TRUE, FALSE)
                ELSE IF in_class /\ current_indent >= 4
                  THEN <<line>> \o FixIndentation(lines, i + 1, in_class, TRUE, FALSE)
                ELSE <<line>> \o FixIndentation(lines, i + 1, FALSE, FALSE, FALSE)
         ELSE IF meth /\ current_indent < 8 /\ Contains(stripped, <<"s","e","l","f",".">> (* self. *))
           THEN <<Spaces(8) \o stripped>> \o FixIndentation(lines, i + 1, cls, meth, FALSE)
         ELSE <<line>> \o FixIndentation(lines, i + 1, cls, meth, FALSE)

\* re.sub(rf"^{prefix}{module}.*$", replacement, code, flags=re.MULTILINE): every
\* line that starts with the prefix and the module name is replaced as a whole
ReplaceLines(code, start, replacement) ==
    LET lines == Split(code, <<NL>>)
    IN Join([i \in 1..Len(lines) |->
                IF StartsWith(lines[i], start) THEN replacement ELSE lines[i]], <<NL>>)

\* where r'(?:numpy|np)\.' + fname + r'\(([^)]+)\)' matches at position i:
\* the position of the closing parenthesis, 0 if there is no match at i
NumpyCallEnd(s, i, fname) ==
    LET Close(head) ==
          IF At(s, i, head) /\ FindFrom(s, i + Len(head), <<")">>) > i + Len(head)
            THEN FindFrom(s, i + Len(head), <<")">>)
          ELSE 0
    IN IF At(s, i, <<"n","u","m","p","y",".">> (* numpy. *)) THEN Close(<<"n","u","m","p",
                                                                          "y",".">> (* numpy. *) \o fname \o <<"(">>)
       ELSE Close(<<"n","p",".">> (* np. *) \o fname \o <<"(">>)

\* the expansion of a replacement template: the pieces of the template in
\* order, with the captured group in place of every None piece (\1)
RECURSIVE Expand(_, _)
Expand(template, group) ==
    IF Len(template) = 0 THEN <<>>
    ELSE (IF template[1] = None THEN group ELSE template[1])
           \o Expand(Tail(template), group)

\* re.sub(r'(?:numpy|np)\.' + fname + r'\(([^)]+)\)', template, s) from
\* position i on, the leftmost match starting at k0 (0: there is none)
RECURSIVE NumpySubAt(_, _, _, _, _)
NumpySubAt(s, i, k0, fname, template) ==
    IF k0 = 0 THEN From(s, i)
    ELSE SubSeq(s, i, k0 - 1)
           \o Expand(template, SubSeq(s, FindFrom(s, k0, <<"(">>) + 1,
                                      NumpyCallEnd(s, k0, fname) - 1))
           \o NumpySubAt(s, NumpyCallEnd(s, k0, fname) + 1,
                         Min({k \in (NumpyCallEnd(s, k0, fname) + 1)..Len(s) :
                                 NumpyCallEnd(s, k, fname) # 0} \cup {Len(s) + 1})
                           % (Len(s) + 1),
                         fname, template)

NumpySub(s, fname, template) ==
    NumpySubAt(s, 1,
               Min({k \in 1..Len(s) : NumpyCallEnd(s, k, fname) # 0} \cup {Len(s) + 1})
                 % (Len(s) + 1),
               fname, template)

\* lines 1097-1098
AddStatisticsImport(code) ==
    IF Contains(code, <<"s","t","a","t","i","s","t","i","c","s",".","m","e","d","i","a",
                        "n">> (* statistics.median *)) /\ ~Contains(code, <<"i","m","p","o",
                                                                            "r","t"," ","s",
                                                                            "t","a","t","i",
                                                                            "s","t","i","c",
                                                                            "s">> (* import statistics *))
      THEN <<"i","m","p","o","r","t"," ","s","t","a","t","i","s","t","i","c","s","\n">>
             (* import statistics\n *) \o code
    ELSE code

\* the replacements of lines 1083-1098 for the modules numpy and np
ReplaceNumpyCalls(code) ==
    AddStatisticsImport(
      NumpySub(
        NumpySub(
          NumpySub(
            NumpySub(
              NumpySub(
                NumpySub(code, <<"m","e","a","n">> (* mean *), <<<<"s","u","m","(">> (* sum( *), None, <<
                                                                                                         ")",
                                                                                                         " ",
                                                                                                         "/",
                                                                                                         " ",
                                                                                                         "l",
                                                                                                         "e",
                                                                                                         "n",
                                                                                                         "(">>
                                                                                                         (* ) / len( *), None, <<")">>>>),
                <<"s","u","m">> (* sum *), <<<<"s","u","m","(">> (* sum( *), None, <<")">>>>),
              <<"m","a","x">> (* max *), <<<<"m","a","x","(">> (* max( *), None, <<")">>>>),
            <<"m","i","n">> (* min *), <<<<"m","i","n","(">> (* min( *), None, <<")">>>>),
          <<"a","r","r","a","y">> (* array *), <<<<"l","i","s","t","(">> (* list( *), None, <<")">>>>),
        <<"m","e","d","i","a","n">> (* median *), <<<<"s","t","a","t","i","s","t","i","c",
                                                      "s",".","m","e","d","i","a","n","(">>
                                                      (* statistics.median( *), None, <<")">>>>))

\* lines 969-971: the result when no rule changes the code
Unchanged(bad_code) ==
    [explanation |-> <<"A","p","p","l","i","e","d"," ","h","e","u","r","i","s","t","i","c",
                       " ","f","i","x"," ","b","a","s","e","d"," ","o","n"," ","e","r","r",
                       "o","r"," ","p","a","t","t","e","r","n">>
                       (* Applied heuristic fix based on error pattern *),
    fixed_code |-> bad_code,
    reasoning |-> <<"A","I"," ","u","n","a","v","a","i","l","a","b","l","e"," ","-"," ","u",
                    "s","i","n","g"," ","p","a","t","t","e","r","n"," ","m","a","t","c","h",
                    "i","n","g">> (* AI unavailable - using pattern matching *)]

\* lines 992-997: the NameError rule for the name the message gives
DefineName(bad_code, var_name) ==
    IF var_name = None THEN Unchanged(bad_code)
    ELSE [explanation |-> <<"D","e","f","i","n","e","d"," ","m","i","s","s","i","n","g"," ",
                            "v","a","r","i","a","b","l","e"," ","'">> (* Defined missing variable ' *) \o var_name
                             \o <<"'"," ","w","i","t","h"," ","d","e","f","a","u","l","t",
                                  " ","v","a","l","u","e">> (* ' with default value *),
           fixed_code |-> var_name \o <<" ","="," ","N","o","n","e"," "," ","#"," ","A","u",
                                        "t","o","-","d","e","f","i","n","e","d","\n">>
                                        (*  = None  # Auto-defined\n *) \o bad_code,
           reasoning |-> <<"D","e","t","e","c","t","e","d"," ","N","a","m","e","E","r","r",
                           "o","r"," ","f","o","r"," ","u","n","d","e","f","i","n","e","d",
                           " ","v","a","r","i","a","b","l","e"," ","'">>
                           (* Detected NameError for undefined variable ' *)
                             \o var_name
                             \o <<"'","."," ","A","d","d","i","n","g"," ","i","n","i","t",
                                  "i","a","l","i","z","a","t","i","o","n"," ","w","i","t",
                                  "h"," ","s","e","n","s","i","b","l","e"," ","d","e","f",
                                  "a","u","l","t"," ","(","N","o","n","e",")"," ","a","t",
                                  " ","t","h","e"," ","t","o","p"," ","o","f"," ","t","h",
                                  "e"," ","c","o","d","e",".">>
                                  (* '. Adding initialization with sensible default (None) at the top of the code. *)]

\* lines 1079-1080: the module's import lines are commented out
CommentImports(bad_code, module) ==
    ReplaceLines(
    ReplaceLines(bad_code, <<"i","m","p","o","r","t"," ">> (* import  *) \o module,
        <<"#"," ","i","m","p","o","r","t"," ">> (* # import  *) \o module \o <<" "," ","#",
                                                                               " ","U","n",
                                                                               "a","v","a",
                                                                               "i","l","a",
                                                                               "b","l","e",
                                                                               " ","i","n",
                                                                               " ","s","a",
                                                                               "n","d","b",
                                                                               "o","x">>
                                                                               (*   # Unavailable in sandbox *)),
    <<"f","r","o","m"," ">> (* from  *) \o module,
    <<"#"," ","R","e","m","o","v","e","d",":"," ">> (* # Removed:  *) \o module \o <<" ",
                                                                                     "n",
                                                                                     "o",
                                                                                     "t",
                                                                                     " ",
                                                                                     "a",
                                                                                     "v",
                                                                                     "a",
                                                                                     "i",
                                                                                     "l",
                                                                                     "a",
                                                                                     "b",
                                                                                     "l",
                                                                                     "e">>
                                                                                     (*  not available *))

\* lines 1072-1098: the ModuleNotFoundError rule for the module the message
\* gives
ReplaceModule(bad_code, module) ==
    IF module = None THEN Unchanged(bad_code)
    ELSE [explanation |-> <<"R","e","p","l","a","c","e","d"," ">> (* Replaced  *) \o module
                             \o <<" ","f","u","n","c","t","i","o","n","s"," ","w","i","t",
                                  "h"," ","s","t","a","n","d","a","r","d"," ","l","i","b",
                                  "r","a","r","y"," ","e","q","u","i","v","a","l","e","n",
                                  "t","s">> (*  functions with standard library equivalents *),
           fixed_code |-> IF module = <<"n","u","m","p","y">> (* numpy *) \/ module = <<"n",
                                                                                        "p">>
                            THEN ReplaceNumpyCalls(CommentImports(bad_code, module))
                          ELSE CommentImports(bad_code, module),
           reasoning |-> <<"M","o","d","u","l","e"," ","'">> (* Module ' *) \o module
                             \o <<"'"," ","i","s"," ","n","o","t"," ","a","v","a","i","l",
                                  "a","b","l","e"," ","i","n"," ","t","h","e"," ","s","a",
                                  "n","d","b","o","x"," ","e","n","v","i","r","o","n","m",
                                  "e","n","t","."," ","R","e","p","l","a","c","i","n","g",
                                  " ">> (* ' is not available in the sandbox environment. Replacing  *)
                             \o module
                             \o <<" ","f","u","n","c","t","i","o","n","s"," ","w","i","t",
                                  "h"," ","P","y","t","h","o","n"," ","s","t","a","n","d",
                                  "a","r","d"," ","l","i","b","r","a","r","y"," ","e","q",
                                  "u","i","v","a","l","e","n","t","s"," ","t","o"," ","m",
                                  "a","i","n","t","a","i","n"," ","f","u","n","c","t","i",
                                  "o","n","a","l","i","t","y",".">>
                                  (*  functions with Python standard library equivalents to maintain functionality. *)]

apply_basic_fix(bad_code, error_log) ==
    IF Contains(error_log, <<"Z","e","r","o","D","i","v","i","s","i","o","n","E","r","r",
                             "o","r">> (* ZeroDivisionError *))
      THEN [explanation |-> <<"W","r","a","p","p","e","d"," ","d","i","v","i","s","i","o",
                              "n"," ","o","p","e","r","a","t","i","o","n"," ","i","n"," ",
                              "t","r","y","-","e","x","c","e","p","t"," ","b","l","o","c",
                              "k">> (* Wrapped division operation in try-except block *),
            fixed_code |-> Join(WrapDivisions(Split(bad_code, <<NL>>)), <<NL>>),
            reasoning |-> <<"D","e","t","e","c","t","e","d"," ","Z","e","r","o","D","i","v",
                            "i","s","i","o","n","E","r","r","o","r"," ","i","n"," ","s","t",
                            "a","c","k"," ","t","r","a","c","e","."," ","T","h","e"," ","c",
                            "o","d","e"," ","a","t","t","e","m","p","t","s"," ","d","i","v",
                            "i","s","i","o","n"," ","t","h","a","t"," ","m","a","y"," ","r",
                            "e","s","u","l","t"," ","i","n"," ","z","e","r","o"," ","d","e",
                            "n","o","m","i","n","a","t","o","r","."," ","W","r","a","p","p",
                            "i","n","g"," ","i","n"," ","e","x","c","e","p","t","i","o","n",
                            " ","h","a","n","d","l","e","r"," ","p","r","o","v","i","d","e",
                            "s"," ","g","r","a","c","e","f","u","l"," ","e","r","r","o","r",
                            " ","h","a","n","d","l","i","n","g",".">>
                            (* Detected ZeroDivisionError in stack trace. The code attempts division that may result in zero denominator. Wrapping in exception handler provides graceful error handling. *)]
    ELSE IF Contains(error_log, <<"N","a","m","e","E","r","r","o","r">> (* NameError *))
      THEN DefineName(bad_code,
                      SearchQuotedName(error_log, <<"n","a","m","e"," ","'">> (* name ' *), <<
                                                                                              "'",
                                                                                              " ",
                                                                                              "i",
                                                                                              "s",
                                                                                              " ",
                                                                                              "n",
                                                                                              "o",
                                                                                              "t",
                                                                                              " ",
                                                                                              "d",
                                                                                              "e",
                                                                                              "f",
                                                                                              "i",
                                                                                              "n",
                                                                                              "e",
                                                                                              "d">>
                                                                                              (* ' is not defined *)))
    ELSE IF \/ Contains(error_log, <<"I","n","d","e","n","t","a","t","i","o","n","E","r",
                                     "r","o","r">> (* IndentationError *))
            \/ Contains(error_log, <<"u","n","e","x","p","e","c","t","e","d"," ","i","n",
                                     "d","e","n","t">> (* unexpected indent *))
      THEN [explanation |-> <<"F","i","x","e","d"," ","i","n","d","e","n","t","a","t","i",
                              "o","n"," ","b","y"," ","p","r","o","p","e","r","l","y"," ",
                              "a","l","i","g","n","i","n","g"," ","c","o","d","e"," ","b",
                              "l","o","c","k","s">> (* Fixed indentation by properly aligning code blocks *),
            fixed_code |->
                Replace(Join(FixIndentation(Split(bad_code, <<NL>>), 1,
                                            FALSE, FALSE, FALSE), <<NL>>),
                        <<"\t">>, Spaces(4)),
            reasoning |-> <<"D","e","t","e","c","t","e","d"," ","i","n","d","e","n","t","a",
                            "t","i","o","n"," ","e","r","r","o","r","."," ","P","y","t","h",
                            "o","n"," ","r","e","q","u","i","r","e","s"," ","c","o","n","s",
                            "i","s","t","e","n","t"," ","i","n","d","e","n","t","a","t","i",
                            "o","n","."," ","F","i","x","e","d"," ","b","y"," ","e","n","s",
                            "u","r","i","n","g"," ","c","l","a","s","s"," ","m","e","t","h",
                            "o","d","s"," ","a","r","e"," ","i","n","d","e","n","t","e","d",
                            " ","u","n","d","e","r"," ","t","h","e"," ","c","l","a","s","s",
                            ","," ","w","h","i","l","e"," ","k","e","e","p","i","n","g"," ",
                            "m","o","d","u","l","e","-","l","e","v","e","l"," ","f","u","n",
                            "c","t","i","o","n","s"," ","a","t"," ","m","o","d","u","l","e",
                            " ","l","e","v","e","l",".">>
                            (* Detected indentation error. Python requires consistent indentation. Fixed by ensuring class methods are indented under the class, while keeping module-level functions at module level. *)]
    ELSE IF Contains(error_log, <<"S","y","n","t","a","x","E","r","r","o","r">> (* SyntaxError *))
      THEN [explanation |-> <<"S","y","n","t","a","x"," ","e","r","r","o","r"," ","d","e",
                              "t","e","c","t","e","d"," ","-"," ","m","a","n","u","a","l",
                              " ","r","e","v","i","e","w"," ","r","e","c","o","m","m","e",
                              "n","d","e","d">> (* Syntax error detected - manual review recommended *),
            fixed_code |-> bad_code,
            reasoning |-> <<"S","y","n","t","a","x"," ","e","r","r","o","r","s"," ","r","e",
                            "q","u","i","r","e"," ","c","o","n","t","e","x","t","-","a","w",
                            "a","r","e"," ","p","a","r","s","i","n","g","."," ","B","a","s",
                            "i","c"," ","p","a","t","t","e","r","n"," ","m","a","t","c","h",
                            "i","n","g"," ","c","a","n","n","o","t"," ","r","e","l","i","a",
                            "b","l","y"," ","f","i","x"," ","a","r","b","i","t","r","a","r",
                            "y"," ","s","y","n","t","a","x"," ","i","s","s","u","e","s",
                            ".">>
                            (* Syntax errors require context-aware parsing. Basic pattern matching cannot reliably fix arbitrary syntax issues. *)]
    ELSE IF \/ Contains(error_log, <<"M","o","d","u","l","e","N","o","t","F","o","u","n",
                                     "d","E","r","r","o","r">> (* ModuleNotFoundError *))
            \/ Contains(error_log, <<"N","o"," ","m","o","d","u","l","e"," ","n","a","m",
                                     "e","d">> (* No module named *))
      THEN ReplaceModule(bad_code,
                         SearchQuotedName(error_log, <<"N","o"," ","m","o","d","u","l","e",
                                                       " ","n","a","m","e","d"," ","'">>
                                                       (* No module named ' *), <<"'">>))
    ELSE Unchanged(bad_code)

(***************************************************************************)
(* get_ai_fix.  The advisory service's answer to requests.post is the      *)
(* record reply:                                                           *)
(*   fault        "none", or the exception requests.post raises:           *)
(*                "ConnectionError", "Timeout", or "Exception" (any other) *)
(*   status_code  the HTTP status                                          *)
(*   body         what response.json() gives: "malformed" (it raises),     *)
(*                "value" (JSON that is no object) or "object"             *)
(*   response     the "response" member of that object: "absent",          *)
(*                "nontext" (no string), or a string that json.loads       *)
(*                finds "malformed", a "value" that is no object, or an    *)
(*                "object"                                                 *)
(*   explanation, fixed_code, reasoning                                    *)
(*                the members of that object: Absent, None (null),         *)
(*                NonText (a number, a boolean or an object), Array (a     *)
(*                list) or a text                                          *)
(* The result is the tuple the function returns without its timing:        *)
(* [explanation, fixed_code, reasoning].                                   *)
(***************************************************************************)
Absent == <<"Absent">>
NonText == <<"NonText">>
Array == <<"Array">>
IsText(v) == v # None /\ v # Absent /\ v # NonText /\ v # Array

\* where r'\b' + keyword + r'\s+(\w+)' matches at position k: the position
\* at which the name starts, 0 if there is no match at k
DeclaredAt(s, k, keyword) ==
    IF /\ At(s, k, keyword)
       /\ (k = 1 \/ ~IsWord(s[k - 1]))
       /\ SpaceEnd(s, k + Len(keyword)) >= k + Len(keyword)
       /\ WordEnd(s, SpaceEnd(s, k + Len(keyword)) + 1) > SpaceEnd(s, k + Len(keyword))
      THEN SpaceEnd(s, k + Len(keyword)) + 1
    ELSE 0

\* set(re.findall(r'\b' + keyword + r'\s+(\w+)', s)), scanning from position i
RECURSIVE DeclaredNames(_, _, _)
DeclaredNames(s, i, keyword) ==
    LET hits == {k \in i..Len(s) : DeclaredAt(s, k, keyword) # 0}
    IN IF hits = {} THEN {}
       ELSE {SubSeq(s, DeclaredAt(s, Min(hits), keyword),
                    WordEnd(s, DeclaredAt(s, Min(hits), keyword)))}
              \cup DeclaredNames(s, WordEnd(s, DeclaredAt(s, Min(hits), keyword)) + 1,
                                 keyword)

\* dict.get(key, default) for a member of the parsed answer
GetOr(member, default) == IF member = Absent THEN default ELSE member

\* lines 1308-1316: the program declares names and the candidate none of them
NoneKept(original, fixed) == original # {} /\ original \cap fixed = {}

\* lines 1302-1312: the program declares classes and the candidate none of them
ClassesDeleted(bad_code, fixed_code) ==
    NoneKept(DeclaredNames(bad_code, 1, <<"c","l","a","s","s">> (* class *)),
             DeclaredNames(fixed_code, 1, <<"c","l","a","s","s">> (* class *)))

\* FunctionsDeleted that finds nothing deleted
FunctionsDeleted_Never(bad_code, fixed_code) == FALSE

\* lines 1303-1316: the program declares functions and the candidate none of
\* them
FunctionsDeleted(bad_code, fixed_code) ==
    NoneKept(DeclaredNames(bad_code, 1, <<"d","e","f">> (* def *)), DeclaredNames(fixed_code, 1, <<
                                                                                                   "d",
                                                                                                   "e",
                                                                                                   "f">>
                                                                                                   (* def *)))

\* TooMuchDeleted that also turns down a candidate at the threshold
TooMuchDeleted_AtThreshold(bad_code, fixed_code) ==
    10 * Len(Strip(fixed_code)) <= 3 * Len(Strip(bad_code))

\* line 1321: len(fixed_code.strip()) < len(bad_code.strip()) * 0.3; the
\* product in double precision compares with an integer as 3 * len / 10 does
TooMuchDeleted(bad_code, fixed_code) ==
    10 * Len(Strip(fixed_code)) < 3 * Len(Strip(bad_code))

\* Fallback that hands out no program
Fallback_NoProgram(explained, basic, reasoned) ==
    [explanation |-> explained \o basic.explanation,
     fixed_code |-> <<>>,
     reasoning |-> reasoned \o basic.reasoning]

\* the returns that hand out apply_basic_fix's result under a prefixed
\* explanation and reasoning (lines 1313-1343)
Fallback(explained, basic, reasoned) ==
    [explanation |-> explained \o basic.explanation,
     fixed_code |-> basic.fixed_code,
     reasoning |-> reasoned \o basic.reasoning]

\* lines 1300-1325: the cleaned candidate is checked against the program
Validated(bad_code, basic, explanation, fixed_code, reasoning) ==
    IF ClassesDeleted(bad_code, fixed_code)
      THEN Fallback(<<"A","I"," ","f","i","x"," ","r","e","j","e","c","t","e","d"," ","(",
                      "c","l","a","s","s","e","s"," ","d","e","l","e","t","e","d",")"," ",
                      "-"," ">> (* AI fix rejected (classes deleted) -  *), basic,
                    <<"A","I"," ","d","e","l","e","t","e","d"," ","c","l","a","s","s"," ",
                      "d","e","f","i","n","i","t","i","o","n","s","."," ">>
                      (* AI deleted class definitions.  *))
    ELSE IF FunctionsDeleted(bad_code, fixed_code)
      THEN Fallback(<<"A","I"," ","f","i","x"," ","r","e","j","e","c","t","e","d"," ","(",
                      "f","u","n","c","t","i","o","n","s"," ","d","e","l","e","t","e","d",
                      ")"," ","-"," ">> (* AI fix rejected (functions deleted) -  *), basic,
                    <<"A","I"," ","d","e","l","e","t","e","d"," ","f","u","n","c","t","i",
                      "o","n"," ","d","e","f","i","n","i","t","i","o","n","s","."," ">>
                      (* AI deleted function definitions.  *))
    ELSE IF TooMuchDeleted(bad_code, fixed_code)
      THEN Fallback(<<"A","I"," ","f","i","x"," ","r","e","j","e","c","t","e","d"," ","(",
                      "t","o","o"," ","m","u","c","h"," ","c","o","d","e"," ","d","e","l",
                      "e","t","e","d",")"," ","-"," ">> (* AI fix rejected (too much code deleted) -  *), basic,
                    <<"A","I"," ","d","e","l","e","t","e","d"," ","t","o","o"," ","m","u",
                      "c","h"," ","c","o","d","e","."," ">> (* AI deleted too much code.  *))
    ELSE [explanation |-> explanation,
          fixed_code |-> Strip(fixed_code),
          reasoning |-> reasoning]

\* lines 1293-1325: the answer parsed into an object; basic is what
\* apply_basic_fix returns for the program and the error
AcceptOrReject(bad_code, basic, reply) ==
    IF ~IsText(GetOr(reply.fixed_code, bad_code))
      \* clean_code_string or re.findall raises TypeError: the last handler
      THEN Fallback(<<"A","I"," ","e","r","r","o","r"," ","-"," ">> (* AI error -  *), basic, <<>>)
    ELSE Validated(bad_code, basic,
                   GetOr(reply.explanation, <<"A","I"," ","p","r","o","v","i","d","e","d",
                                              " ","f","i","x">> (* AI provided fix *)),
                   clean_code_string(GetOr(reply.fixed_code, bad_code)),
                   GetOr(reply.reasoning, <<"A","I"," ","a","n","a","l","y","s","i","s"," ",
                                            "c","o","m","p","l","e","t","e","d">> (* AI analysis completed *)))

\* lines 1276-1343: the answer of the advisory service is handled; basic is
\* what apply_basic_fix returns for the program and the error
Answer(bad_code, basic, reply) ==
    IF reply.fault = "ConnectionError"
      THEN Fallback(<<"O","l","l","a","m","a"," ","o","f","f","l","i","n","e"," ","-"," ">>
                      (* Ollama offline -  *), basic, <<"C","o","u","l","d"," ","n","o","t",
                                                        " ","c","o","n","n","e","c","t"," ",
                                                        "t","o"," ","O","l","l","a","m","a",
                                                        "."," ">> (* Could not connect to Ollama.  *))
    ELSE IF reply.fault = "Timeout" THEN Fallback(<<"A","I"," ","t","i","m","e","o","u","t",
                                                    " ","-"," ">> (* AI timeout -  *), basic, <<>>)
    ELSE IF reply.fault # "none" THEN Fallback(<<"A","I"," ","e","r","r","o","r"," ","-",
                                                 " ">> (* AI error -  *), basic, <<>>)
    ELSE IF reply.status_code # 200 THEN basic
    \* response.json() raises, or result.get raises AttributeError
    ELSE IF reply.body # "object" THEN Fallback(<<"A","I"," ","e","r","r","o","r"," ","-",
                                                  " ">> (* AI error -  *), basic, <<>>)
    \* the members an empty object "{}" has
    ELSE IF reply.response = "absent"
      THEN AcceptOrReject(bad_code, basic,
                          [reply EXCEPT !.explanation = Absent,
                                        !.fixed_code = Absent,
                                        !.reasoning = Absent])
    \* json.loads of something that is no string raises TypeError
    ELSE IF reply.response = "nontext" THEN Fallback(<<"A","I"," ","e","r","r","o","r"," ",
                                                       "-"," ">> (* AI error -  *), basic, <<>>)
    ELSE IF reply.response = "malformed"
      THEN Fallback(<<"A","I"," ","p","a","r","s","e"," ","f","a","i","l","e","d",","," ",
                      "u","s","i","n","g"," ","f","a","l","l","b","a","c","k",":"," ">>
                      (* AI parse failed, using fallback:  *), basic, <<>>)
    \* parsed.get raises AttributeError
    ELSE IF reply.response = "value" THEN Fallback(<<"A","I"," ","e","r","r","o","r"," ",
                                                     "-"," ">> (* AI error -  *), basic, <<>>)
    ELSE AcceptOrReject(bad_code, basic, reply)

get_ai_fix(bad_code, error_log, reply) ==
    Answer(bad_code, apply_basic_fix(bad_code, error_log), reply)

(***************************************************************************)
(* validate_logical_correctness and its helpers                            *)
(***************************************************************************)
\* str(n) for n >= 0
RECURSIVE IntText(_)
IntText(n) ==
    IF n < 10 THEN <<<<"0","1","2","3","4","5","6","7","8","9">> (* 0123456789 *)[n + 1]>>
    ELSE IntText(n \div 10) \o <<<<"0","1","2","3","4","5","6","7","8","9">> (* 0123456789 *)[(n % 10) + 1]>>

\* the end of the longest run of digits starting at i (i - 1 if none)
DigitEnd(s, i) ==
    Min({k \in i..Len(s) : s[k] \notin DOMAIN DigitValues} \cup {Max({i, Len(s) + 1})}) - 1

\* the (\w+)\s*\( part of the pattern below, with the name starting at n
DefNameAt(line, n) ==
    IF /\ WordEnd(line, n) >= n
       /\ At(line, SpaceEnd(line, WordEnd(line, n) + 1) + 1, <<"(">>)
      THEN SubSeq(line, n, WordEnd(line, n))
    ELSE None

\* re.match(r'\s*def\s+(\w+)\s*\(', line): the name, None without a match
DefName(line) ==
    IF /\ At(line, SpaceEnd(line, 1) + 1, <<"d","e","f">> (* def *))
       /\ SpaceEnd(line, SpaceEnd(line, 1) + 4) >= SpaceEnd(line, 1) + 4
      THEN DefNameAt(line, SpaceEnd(line, SpaceEnd(line, 1) + 4) + 1)
    ELSE None

\* lines 611-620: the names the lines define, in the order of the lines
DefNames(lines) ==
    SelectSeq([i \in DOMAIN lines |-> DefName(lines[i])], LAMBDA n : n # None)

\* extract_function_names: the names, in the order of their lines
extract_function_names(code) == DefNames(Split(code, <<NL>>))

\* lines 775-789: the lines of the body that follow line i
RECURSIVE FunctionBody(_, _, _)
FunctionBody(lines, i, func_indent) ==
    IF i > Len(lines) THEN <<>>
    ELSE IF Len(Strip(lines[i])) = 0
      THEN <<lines[i]>> \o FunctionBody(lines, i + 1, func_indent)
    ELSE IF LeadingSpaces(lines[i]) <= func_indent THEN <<>>
    ELSE <<lines[i]>> \o FunctionBody(lines, i + 1, func_indent)

\* line 767: re.match(r'\s*def\s+' + re.escape(func_name) + r'\s*\(', line); k
\* runs over the positions the name can start at, one or more whitespace
\* characters after the keyword
MatchesDef(line, func_name) ==
    /\ At(line, LeadingSpaces(line) + 1, <<"d","e","f">> (* def *))
    /\ \E k \in (LeadingSpaces(line) + 5)..(SpaceEnd(line, LeadingSpaces(line) + 4) + 1) :
          /\ At(line, k, func_name)
          /\ At(line, SpaceEnd(line, k + Len(func_name)) + 1, <<"(">>)

\* lines 765-791: the first function of that name among the lines
FunctionIn(lines, func_name) ==
    LET starts == {i \in DOMAIN lines : MatchesDef(lines[i], func_name)}
    IN IF starts = {} THEN None
       ELSE Join(<<lines[Min(starts)]>>
                   \o FunctionBody(lines, Min(starts) + 1,
                                   LeadingSpaces(lines[Min(starts)])), <<NL>>)

\* extract_function_code: the text of the first function of that name, None
\* when the code defines none
extract_function_code(code, func_name) == FunctionIn(Split(code, <<NL>>), func_name)

\* the positions a regular expression can reach from the positions S by \s*
SkipSpaces(s, S) == UNION {p..(SpaceEnd(s, p) + 1) : p \in S}
\* ... and by an optional literal
SkipOptional(s, S, literal) == S \cup {p + Len(literal) : p \in {q \in S : At(s, q, literal)}}
\* ... and by a literal
SkipLiteral(s, S, literal) == {p + Len(literal) : p \in {q \in S : At(s, q, literal)}}

\* the (\d+) group of the leftmost match: digits_at maps every candidate
\* start of a match to the set of positions at which the group can begin for
\* a match that starts there; None without a match
LeftmostNumber(s, digits_at) ==
    LET hits == {k \in DOMAIN digits_at : \E q \in digits_at[k] : DigitEnd(s, q) >= q}
        q0 == Min({q \in digits_at[Min(hits)] : DigitEnd(s, q) >= q})
    IN IF hits = {} THEN None ELSE SubSeq(s, q0, DigitEnd(s, q0))

\* positions where [Hh]eight, or height alone, occurs
HeightStarts(s, any_case) ==
    {k \in 1..Len(s) : At(s, k, <<"h","e","i","g","h","t">> (* height *)) \/ (any_case /\ At(s, k, <<
                                                                                                     "H",
                                                                                                     "e",
                                                                                                     "i",
                                                                                                     "g",
                                                                                                     "h",
                                                                                                     "t">>
                                                                                                     (* Height *)))}

\* what \s*(?:of\s*(?:tree|tree:)?)?\s*:?\s* can reach from the positions a,
\* of being the positions behind "of" and the blanks that follow it
AfterOf(s, a, of) ==
    SkipSpaces(s, SkipOptional(s,
        SkipSpaces(s, a \cup of \cup SkipLiteral(s, of, <<"t","r","e","e">> (* tree *))
                        \cup SkipLiteral(s, of, <<"t","r","e","e",":">> (* tree: *))),
        <<":">>))

\* re.search(r'[Hh]eight\s*(?:of\s*(?:tree|tree:)?)?\s*:?\s*(\d+)', output)
HeightPattern1(output) ==
    LeftmostNumber(output,
        [k \in HeightStarts(output, TRUE) |->
            AfterOf(output, SkipSpaces(output, {k + 6}),
                    SkipSpaces(output,
                        SkipLiteral(output, SkipSpaces(output, {k + 6}), <<"o","f">>)))])

\* re.search(r'[Hh]eight\s*=\s*(\d+)', output) and, with any_case FALSE,
\* re.search(r'height\s*=\s*(\d+)', output)
HeightPattern2(output, any_case) ==
    LeftmostNumber(output,
        [k \in HeightStarts(output, any_case) |->
            SkipSpaces(output,
                SkipLiteral(output, SkipSpaces(output, {k + 6}), <<"=">>))])

\* re.search(r'print.*[Hh]eight.*?(\d+)', output): within one line, after the
\* leftmost "print" that has such a continuation, the first number behind
\* the last [Hh]eight that a number follows
HeightPattern4(output) ==
    LET LineEnd(k) == LET n == FindFrom(output, k, <<NL>>)
                      IN IF n = 0 THEN Len(output) ELSE n - 1
        FirstDigit(h, k) ==
            LET ds == {q \in (h + 6)..LineEnd(k) : output[q] \in DOMAIN DigitValues}
            IN IF ds = {} THEN 0 ELSE Min(ds)
        Heights(k) == {h \in (k + 5)..LineEnd(k) :
                          h \in HeightStarts(output, TRUE) /\ FirstDigit(h, k) # 0}
        hits == {k \in 1..Len(output) : At(output, k, <<"p","r","i","n","t">> (* print *)) /\ Heights(k) # {}}
        k0 == Min(hits)
        q0 == FirstDigit(Max(Heights(k0)), k0)
    IN IF hits = {} THEN None ELSE SubSeq(output, q0, DigitEnd(output, q0))

\* sys.get_int_max_str_digits() of the interpreter: int() of a longer run
\* of digits raises ValueError
MaxStrDigits == 4300

\* what stands for a ValueError raised by int() among the messages of the
\* checks
Raised == <<"ValueError">>

\* int(text) == 0 for a run of digits
IsZero(number) ==
    number # None /\ \A i \in 1..Len(number) : DigitValues[number[i]] = <<"0">>

\* re.search(r'Node\([^)]+\)', code)
HasNodeCall(code) ==
    \E k \in 1..Len(code) :
        /\ At(code, k, <<"N","o","d","e","(">> (* Node( *))
        /\ k + 5 <= Len(code)
        /\ code[k + 5] # ")"
        /\ FindFrom(code, k + 5, <<")">>) # 0

\* len(re.findall(r'Node\(', code))
NodeCount(code) == Cardinality({k \in 1..Len(code) : At(code, k, <<"N","o","d","e","(">> (* Node( *))})

\* lines 649-664 for one pattern, number being the group of its match and
\* message what lines 654-664 return for a height 0: int() raises, or the
\* message is returned, or the loop goes on (None)
PatternOutcome(number, message) ==
    IF number = None THEN None
    ELSE IF Len(number) > MaxStrDigits THEN Raised
    ELSE IF IsZero(number) THEN message
    ELSE None

\* lines 648-664: the patterns in their order
HeightOutcome(output, message) ==
    FirstFound(<< PatternOutcome(HeightPattern1(output), message),
                  PatternOutcome(HeightPattern2(output, TRUE), message),
                  PatternOutcome(HeightPattern2(output, FALSE), message),
                  PatternOutcome(HeightPattern4(output), message) >>)

\* lines 657-664: the message for a height 0, nodes being the text of
\* node_count; None when neither branch returns
HeightMessage(func_name, func_code, nodes) ==
    IF func_code # None /\ Contains(func_code, <<"m","a","x","(">> (* max( *))
      THEN IF ~Contains(func_code, <<"+"," ","1">> (* + 1 *)) /\ ~Contains(func_code, <<"+",
                                                                                        "1">>)
             THEN <<"L","O","G","I","C","A","L"," ","E","R","R","O","R",":"," ","F","u","n",
                    "c","t","i","o","n"," ","'">> (* LOGICAL ERROR: Function ' *) \o func_name
                    \o <<"'"," ","c","a","l","c","u","l","a","t","e","s"," ","t","r","e",
                         "e"," ","h","e","i","g","h","t"," ","i","n","c","o","r","r","e",
                         "c","t","l","y","."," ","A"," ","n","o","n","-","e","m","p","t",
                         "y"," ","t","r","e","e"," ","(","w","i","t","h"," ">>
                         (* ' calculates tree height incorrectly. A non-empty tree (with  *)
                    \o nodes
                    \o <<" ","n","o","d","e","(","s",")",")"," ","r","e","t","u","r","n",
                         "e","d"," ","h","e","i","g","h","t"," ","0",","," ","w","h","i",
                         "c","h"," ","i","s"," ","i","m","p","o","s","s","i","b","l","e",
                         "."," ","T","h","e"," ","f","u","n","c","t","i","o","n"," ","i",
                         "s"," ","m","i","s","s","i","n","g"," ","'","+"," ","1","'"," ",
                         "i","n"," ","t","h","e"," ","r","e","t","u","r","n"," ","s","t",
                         "a","t","e","m","e","n","t","."," ","I","t"," ","s","h","o","u",
                         "l","d"," ","r","e","t","u","r","n"," ","m","a","x","(","l","e",
                         "f","t","_","h","e","i","g","h","t",","," ","r","i","g","h","t",
                         "_","h","e","i","g","h","t",")"," ","+"," ","1"," ","t","o"," ",
                         "a","c","c","o","u","n","t"," ","f","o","r"," ","t","h","e"," ",
                         "c","u","r","r","e","n","t"," ","n","o","d","e",".">>
                         (*  node(s)) returned height 0, which is impossible. The function is missing '+ 1' in the return statement. It should return max(left_height, right_height) + 1 to account for the current node. *)
           ELSE IF \/ Contains(Lower(func_code), <<"m","i","s","s","i","n","g">> (* missing *))
                   \/ Contains(func_code, <<"#"," ","+"," ","1"," ","i","s"," ","m","i","s",
                                            "s","i","n","g">> (* # + 1 is missing *))
             THEN <<"L","O","G","I","C","A","L"," ","E","R","R","O","R",":"," ","F","u","n",
                    "c","t","i","o","n"," ","'">> (* LOGICAL ERROR: Function ' *) \o func_name
                    \o <<"'"," ","i","s"," ","m","i","s","s","i","n","g"," ","'","+"," ",
                         "1","'"," ","i","n"," ","t","h","e"," ","h","e","i","g","h","t",
                         " ","c","a","l","c","u","l","a","t","i","o","n","."," ","T","h",
                         "e"," ","c","o","r","r","e","c","t"," ","f","o","r","m","u","l",
                         "a"," ","i","s"," ","m","a","x","(","l","e","f","t","_","h","e",
                         "i","g","h","t",","," ","r","i","g","h","t","_","h","e","i","g",
                         "h","t",")"," ","+"," ","1",".">>
                         (* ' is missing '+ 1' in the height calculation. The correct formula is max(left_height, right_height) + 1. *)
           ELSE None
    ELSE <<"L","O","G","I","C","A","L"," ","E","R","R","O","R",":"," ","F","u","n","c","t",
           "i","o","n"," ","'">> (* LOGICAL ERROR: Function ' *) \o func_name
           \o <<"'"," ","r","e","t","u","r","n","e","d"," ","h","e","i","g","h","t"," ","0",
                " ","f","o","r"," ","a"," ","n","o","n","-","e","m","p","t","y"," ","t","r",
                "e","e"," ","w","i","t","h"," ">> (* ' returned height 0 for a non-empty tree with  *)
           \o nodes
           \o <<" ","n","o","d","e","(","s",")","."," ","T","h","e"," ","h","e","i","g","h",
                "t"," ","c","a","l","c","u","l","a","t","i","o","n"," ","i","s"," ","i","n",
                "c","o","r","r","e","c","t",".">> (*  node(s). The height calculation is incorrect. *)

\* lines 635-664, func_code being extract_function_code(code, func_name);
\* None when the check passes
HeightCheck(code, output, func_name, func_code) ==
    IF /\ Contains(Lower(func_name), <<"h","e","i","g","h","t">> (* height *))
       /\ (HasNodeCall(code) \/ Contains(Lower(code), <<"r","o","o","t">> (* root *)))
      THEN HeightOutcome(output,
                         IF NodeCount(code) > 0
                           THEN HeightMessage(func_name, func_code,
                                              IntText(NodeCount(code)))
                         ELSE None)
    ELSE None

\* lines 678-682: the first line after line i that is neither blank nor a
\* comment, None when there is none
FollowingLine(lines, i) ==
    LET following == {j \in (i + 1)..Len(lines) :
                         /\ Len(Strip(lines[j])) > 0
                         /\ ~StartsWith(Strip(lines[j]), <<"#">>)}
    IN IF following = {} THEN None ELSE lines[Min(following)]

\* lines 674-683: root_append_before_recursion
RootAppendBeforeRecursion(lines, func_name) ==
    LET appends == {i \in DOMAIN lines : Contains(Lower(lines[i]), <<"a","p","p","e","n",
                                                                     "d">> (* append *))}
    IN /\ appends # {}
       /\ FollowingLine(lines, Min(appends)) # None
       /\ \/ Contains(FollowingLine(lines, Min(appends)), func_name)
          \/ Contains(Lower(FollowingLine(lines, Min(appends))), <<"p","r","e","o","r","d",
                                                                   "e","r">> (* preorder *))

\* lines 688-690: elements[0] of re.search(r'\[([^\]]+)\]', output), None
\* without a match
ListedFirst(output) ==
    LET opens == {k \in 1..Len(output) :
                     /\ output[k] = "["
                     /\ k + 1 <= Len(output)
                     /\ output[k + 1] # "]"
                     /\ FindFrom(output, k + 1, <<"]">>) # 0}
    IN IF opens = {} THEN None
       ELSE Strip(Split(SubSeq(output, Min(opens) + 1,
                               FindFrom(output, Min(opens) + 1, <<"]">>) - 1),
                        <<",">>)[1])

\* where the (\d+) of r'root\s*=\s*Node\((\d+)\)' can begin for a match
\* that starts at k
RootValueAt(code, k) ==
    {p \in SkipLiteral(code,
               SkipSpaces(code, SkipLiteral(code, SkipSpaces(code, {k + 4}), <<"=">>)),
               <<"N","o","d","e","(">> (* Node( *)) :
        DigitEnd(code, p) >= p /\ At(code, DigitEnd(code, p) + 1, <<")">>)}

\* lines 692-694: root_val, None without a match
RootValue(code) ==
    LET roots == {k \in 1..Len(code) : At(code, k, <<"r","o","o","t">> (* root *)) /\ RootValueAt(code, k) # {}}
    IN IF roots = {} THEN None
       ELSE SubSeq(code, Min(RootValueAt(code, Min(roots))),
                   DigitEnd(code, Min(RootValueAt(code, Min(roots)))))

\* lines 689-696: the message when the list's first element is not the root
PreorderMessage(func_name, first_element, root_val) ==
    IF first_element # None /\ root_val # None /\ first_element # root_val
      THEN <<"L","O","G","I","C","A","L"," ","E","R","R","O","R",":"," ","F","u","n","c",
             "t","i","o","n"," ","'">> (* LOGICAL ERROR: Function ' *) \o func_name
             \o <<"'"," ","s","h","o","u","l","d"," ","p","e","r","f","o","r","m"," ","P",
                  "R","E","O","R","D","E","R"," ","t","r","a","v","e","r","s","a","l"," ",
                  "(","R","o","o","t","-",">","L","e","f","t","-",">","R","i","g","h","t",
                  ")",","," ","b","u","t"," ","t","h","e"," ","o","u","t","p","u","t"," ",
                  "s","h","o","w","s"," ","r","o","o","t"," ","v","a","l","u","e"," ","'">>
                  (* ' should perform PREORDER traversal (Root->Left->Right), but the output shows root value ' *)
             \o root_val
             \o <<"'"," ","i","s"," ","n","o","t"," ","f","i","r","s","t","."," ","T","h",
                  "e"," ","r","o","o","t"," ","s","h","o","u","l","d"," ","b","e"," ","v",
                  "i","s","i","t","e","d"," ","b","e","f","o","r","e"," ","l","e","f","t",
                  " ","a","n","d"," ","r","i","g","h","t"," ","s","u","b","t","r","e","e",
                  "s",".">> (* ' is not first. The root should be visited before left and right subtrees. *)
    ELSE None

\* lines 667-696; None when the check passes
PreorderCheck(code, output, func_name, func_code) ==
    IF /\ Contains(Lower(func_name), <<"p","r","e","o","r","d","e","r">> (* preorder *))
       /\ func_code # None
       /\ ~RootAppendBeforeRecursion(Split(func_code, <<NL>>), func_name)
       /\ Contains(Lower(func_code), <<"a","p","p","e","n","d">> (* append *))
      THEN PreorderMessage(func_name, ListedFirst(output), RootValue(code))
    ELSE None

\* the loop of lines 709-716 from line i on: whether it ends with
\* left_call_found and not (root_append_found and right_call_found)
RECURSIVE InorderScan(_, _, _, _, _, _)
InorderScan(lines, i, func_name, left_call_found, root_append_found, right_call_found) ==
    IF i > Len(lines)
      THEN left_call_found /\ ~(root_append_found /\ right_call_found)
    ELSE IF Contains(lines[i], func_name) \/ Contains(Lower(lines[i]), <<"i","n","o","r",
                                                                         "d","e","r">> (* inorder *))
      THEN IF Contains(Lower(lines[i]), <<"l","e","f","t">> (* left *))
             THEN InorderScan(lines, i + 1, func_name, TRUE,
                              root_append_found
                                \/ (Contains(Lower(lines[i]), <<"a","p","p","e","n","d">> (* append *))
                                      /\ ~right_call_found),
                              right_call_found)
           ELSE IF Contains(Lower(lines[i]), <<"r","i","g","h","t">> (* right *))
             THEN InorderScan(lines, i + 1, func_name, left_call_found,
                              root_append_found, TRUE)
           ELSE InorderScan(lines, i + 1, func_name, left_call_found,
                            root_append_found
                              \/ (Contains(Lower(lines[i]), <<"a","p","p","e","n","d">> (* append *))
                                    /\ left_call_found /\ ~right_call_found),
                            right_call_found)
    ELSE InorderScan(lines, i + 1, func_name, left_call_found,
                     root_append_found
                       \/ (Contains(Lower(lines[i]), <<"a","p","p","e","n","d">> (* append *))
                             /\ left_call_found /\ ~right_call_found),
                     right_call_found)

\* lines 698-719; None when the check passes
InorderCheck(func_name, func_code) ==
    IF /\ Contains(Lower(func_name), <<"i","n","o","r","d","e","r">> (* inorder *))
       /\ func_code # None
       /\ Contains(Lower(func_code), <<"a","p","p","e","n","d">> (* append *))
       /\ InorderScan(Split(func_code, <<NL>>), 1, func_name, FALSE, FALSE, FALSE)
      THEN <<"L","O","G","I","C","A","L"," ","E","R","R","O","R",":"," ","F","u","n","c",
             "t","i","o","n"," ","'">> (* LOGICAL ERROR: Function ' *) \o func_name
             \o <<"'"," ","s","h","o","u","l","d"," ","p","e","r","f","o","r","m"," ","I",
                  "N","O","R","D","E","R"," ","t","r","a","v","e","r","s","a","l"," ","(",
                  "L","e","f","t","-",">","R","o","o","t","-",">","R","i","g","h","t",")",
                  "."," ","T","h","e"," ","r","o","o","t"," ","s","h","o","u","l","d"," ",
                  "b","e"," ","v","i","s","i","t","e","d"," ","b","e","t","w","e","e","n",
                  " ","l","e","f","t"," ","a","n","d"," ","r","i","g","h","t"," ","s","u",
                  "b","t","r","e","e"," ","t","r","a","v","e","r","s","a","l","s",".">>
                  (* ' should perform INORDER traversal (Left->Root->Right). The root should be visited between left and right subtree traversals. *)
    ELSE None

\* lines 728-737: recursion_found and not root_append_after_calls
RecursionWithoutAppend(lines, func_name) ==
    LET recursions == {i \in DOMAIN lines :
                          \/ Contains(lines[i], func_name)
                          \/ Contains(Lower(lines[i]), <<"p","o","s","t","o","r","d","e",
                                                         "r">> (* postorder *))}
    IN /\ recursions # {}
       /\ ~\E i \in DOMAIN lines :
              /\ Contains(Lower(lines[i]), <<"a","p","p","e","n","d">> (* append *))
              /\ \E r \in recursions : r <= i

\* lines 721-740; None when the check passes
PostorderCheck(func_name, func_code) ==
    IF /\ Contains(Lower(func_name), <<"p","o","s","t","o","r","d","e","r">> (* postorder *))
       /\ func_code # None
       /\ RecursionWithoutAppend(Split(func_code, <<NL>>), func_name)
      THEN <<"L","O","G","I","C","A","L"," ","E","R","R","O","R",":"," ","F","u","n","c",
             "t","i","o","n"," ","'">> (* LOGICAL ERROR: Function ' *) \o func_name
             \o <<"'"," ","s","h","o","u","l","d"," ","p","e","r","f","o","r","m"," ","P",
                  "O","S","T","O","R","D","E","R"," ","t","r","a","v","e","r","s","a","l",
                  " ","(","L","e","f","t","-",">","R","i","g","h","t","-",">","R","o","o",
                  "t",")","."," ","T","h","e"," ","r","o","o","t"," ","s","h","o","u","l",
                  "d"," ","b","e"," ","v","i","s","i","t","e","d"," ","a","f","t","e","r",
                  " ","b","o","t","h"," ","l","e","f","t"," ","a","n","d"," ","r","i","g",
                  "h","t"," ","s","u","b","t","r","e","e","s",".">>
                  (* ' should perform POSTORDER traversal (Left->Right->Root). The root should be visited after both left and right subtrees. *)
    ELSE None

\* lines 749-752: a return line that names the function and no operator
PlainReturn(lines, func_name) ==
    \E i \in DOMAIN lines :
        /\ Contains(Lower(lines[i]), <<"r","e","t","u","r","n">> (* return *))
        /\ Contains(lines[i], func_name)
        /\ \A op \in {<<"+">>, <<"-">>, <<"*">>, <<"/">>, <<"m","a","x">> (* max *), <<"m",
                                                                                       "i",
                                                                                       "n">> (* min *)} :
              ~Contains(lines[i], op)

\* lines 742-755; None when the check passes
AccumulationCheck(func_name, func_code) ==
    IF /\ \E keyword \in {<<"s","u","m">> (* sum *), <<"c","o","u","n","t">> (* count *), <<
                                                                                            "s",
                                                                                            "i",
                                                                                            "z",
                                                                                            "e">> (* size *), <<
                                                                                                                "l",
                                                                                                                "e",
                                                                                                                "n",
                                                                                                                "g",
                                                                                                                "t",
                                                                                                                "h">>
                                                                                                                (* length *), <<
                                                                                                                                "d",
                                                                                                                                "e",
                                                                                                                                "p",
                                                                                                                                "t",
                                                                                                                                "h">>
                                                                                                                                (* depth *)} :
             Contains(Lower(func_name), keyword)
       /\ Contains(Lower(func_name), <<"s","u","m">> (* sum *)) \/ Contains(Lower(func_name), <<
                                                                                                "c",
                                                                                                "o",
                                                                                                "u",
                                                                                                "n",
                                                                                                "t">>
                                                                                                (* count *))
       /\ func_code # None
       /\ Contains(func_code, func_name)
       /\ Contains(func_code, <<"r","e","t","u","r","n">> (* return *))
       /\ PlainReturn(Split(func_code, <<NL>>), func_name)
      THEN <<"L","O","G","I","C","A","L"," ","E","R","R","O","R",":"," ","F","u","n","c",
             "t","i","o","n"," ","'">> (* LOGICAL ERROR: Function ' *) \o func_name
             \o <<"'"," ","a","p","p","e","a","r","s"," ","t","o"," ","b","e"," ","r","e",
                  "c","u","r","s","i","v","e"," ","b","u","t"," ","t","h","e"," ","r","e",
                  "t","u","r","n"," ","s","t","a","t","e","m","e","n","t"," ","d","o","e",
                  "s","n","'","t"," ","a","c","c","u","m","u","l","a","t","e"," ","v","a",
                  "l","u","e","s","."," ","F","o","r"," ","s","u","m","/","c","o","u","n",
                  "t"," ","f","u","n","c","t","i","o","n","s",","," ","y","o","u"," ","t",
                  "y","p","i","c","a","l","l","y"," ","n","e","e","d"," ","t","o"," ","a",
                  "d","d"," ","t","h","e"," ","r","e","c","u","r","s","i","v","e"," ","r",
                  "e","s","u","l","t"," ","t","o"," ","t","h","e"," ","c","u","r","r","e",
                  "n","t"," ","v","a","l","u","e",".">>
                  (* ' appears to be recursive but the return statement doesn't accumulate values. For sum/count functions, you typically need to add the recursive result to the current value. *)
    ELSE None

\* lines 632-755: the checks of one function in the order of the source,
\* func_code being extract_function_code(code, func_name): the first message
FunctionCheck(code, output, func_name, func_code) ==
    FirstFound(<< HeightCheck(code, output, func_name, func_code),
                  PreorderCheck(code, output, func_name, func_code),
                  InorderCheck(func_name, func_code),
                  PostorderCheck(func_name, func_code),
                  AccumulationCheck(func_name, func_code) >>)

\* the call of validate_logical_correctness raises ValueError
ValueError == [raises |-> "ValueError"]

\* lines 631-757: the first message over the functions, as the pair the
\* function returns, (is_valid, error_message), in a record; ValueError when
\* int() raised before any message was returned
Verdict(error) ==
    IF error = Raised THEN ValueError
    ELSE [is_valid |-> error = None, error |-> error]

\* validate_logical_correctness
validate_logical_correctness(code, output) ==
    Verdict(FirstFound([i \in DOMAIN extract_function_names(code) |->
                FunctionCheck(code, output, extract_function_names(code)[i],
                    extract_function_code(code, extract_function_names(code)[i]))]))

(***************************************************************************)
(* generate_line_edits.  Lines and blocks are counted from 0 as in the     *)
(* source; a[i + 1] is the source's a[i].                                  *)
(***************************************************************************)
\* str.splitlines(): a line ends at "\n", "\r", "\r\n", vertical tab, form
\* feed, the separators U+001C to U+001E, U+0085, U+2028 and U+2029; text
\* after the last line end is a line of its own when it is not empty
SplitLines(s) ==
    LET ends == {k \in 1..Len(s) :
                    /\ s[k] \in {"\n", "\r", "\f", "U+000B", "U+001C", "U+001D",
                                  "U+001E", "U+0085", "U+2028", "U+2029"}
                    /\ ~(s[k] = "\r" /\ k < Len(s) /\ s[k + 1] = "\n")}
        End(j) == IF j = 0 THEN 0
                  ELSE CHOOSE e \in ends : Cardinality({x \in ends : x <= e}) = j
        Stop(e) == IF s[e] = "\n" /\ e > 1 /\ s[e - 1] = "\r" THEN e - 2 ELSE e - 1
    IN [j \in 1..Cardinality(ends) |-> SubSeq(s, End(j - 1) + 1, Stop(End(j)))]
         \o (IF End(Cardinality(ends)) < Len(s)
               THEN <<From(s, End(Cardinality(ends)) + 1)>>
             ELSE <<>>)

\* difflib.SequenceMatcher.find_longest_match, its first loop: the block
\* <<i, j, k>> with a[i:i+k] == b[j:j+k] of the greatest k, of those the one
\* with the least i, of those the one with the least j, over the elements of
\* b that are indexed; <<alo, blo, 0>> when there is none.  With autojunk
\* (the default of line 799) and 200 elements or more in b, an element that
\* occurs more than len(b) // 100 + 1 times in b is not indexed.
LongestIndexed(a, b, alo, ahi, blo, bhi) ==
    LET popular == IF Len(b) >= 200
                     THEN {b[p] : p \in {q \in 1..Len(b) :
                              Cardinality({j \in 1..Len(b) : b[j] = b[q]})
                                 > (Len(b) \div 100) + 1}}
                   ELSE {}
        blocks == {x \in (alo..(ahi - 1)) \X (blo..(bhi - 1)) \X (1..(ahi - alo)) :
                      /\ x[1] + x[3] <= ahi
                      /\ x[2] + x[3] <= bhi
                      /\ \A d \in 1..x[3] : /\ a[x[1] + d] = b[x[2] + d]
                                             /\ b[x[2] + d] \notin popular}
    IN IF blocks = {} THEN <<alo, blo, 0>>
       ELSE CHOOSE x \in blocks :
              \A y \in blocks :
                 \/ x[3] > y[3]
                 \/ x[3] = y[3] /\ x[1] < y[1]
                 \/ x[3] = y[3] /\ x[1] = y[1] /\ x[2] <= y[2]

\* its loops after the first: the block m grows to the left and then to the
\* right over equal elements, indexed or not (no element is junk, isjunk
\* being None)
Extended(a, b, alo, ahi, blo, bhi, m) ==
    LET left == Max({l \in 0..Min({m[1] - alo, m[2] - blo}) :
                        \A d \in 1..l : a[m[1] - d + 1] = b[m[2] - d + 1]})
        right == Max({r \in 0..Min({ahi - m[1] - m[3], bhi - m[2] - m[3]}) :
                         \A d \in 1..r : a[m[1] + m[3] + d] = b[m[2] + m[3] + d]})
    IN <<m[1] - left, m[2] - left, m[3] + left + right>>

\* difflib.SequenceMatcher.find_longest_match(alo, ahi, blo, bhi)
find_longest_match(a, b, alo, ahi, blo, bhi) ==
    Extended(a, b, alo, ahi, blo, bhi, LongestIndexed(a, b, alo, ahi, blo, bhi))

\* difflib.SequenceMatcher.get_matching_blocks(), its queue loop and sort for
\* a[alo:ahi] and b[blo:bhi]: the longest match, and the blocks to its left
\* and to its right, in increasing order
RECURSIVE SortedBlocks(_, _, _, _, _, _)
SortedBlocks(a, b, alo, ahi, blo, bhi) ==
    LET m == find_longest_match(a, b, alo, ahi, blo, bhi)
    IN IF m[3] = 0 THEN <<>>
       ELSE (IF alo < m[1] /\ blo < m[2]
               THEN SortedBlocks(a, b, alo, m[1], blo, m[2])
             ELSE <<>>)
            \o <<m>>
            \o (IF m[1] + m[3] < ahi /\ m[2] + m[3] < bhi
                  THEN SortedBlocks(a, b, m[1] + m[3], ahi, m[2] + m[3], bhi)
                ELSE <<>>)

\* difflib.SequenceMatcher.get_matching_blocks() without the closing
\* (len(a), len(b), 0), given the sorted blocks: blocks that touch in a and
\* in b are collapsed into one
MatchingBlocks(blocks) ==
    LET heads == {n \in 1..Len(blocks) :
                     \/ n = 1
                     \/ blocks[n - 1][1] + blocks[n - 1][3] # blocks[n][1]
                     \/ blocks[n - 1][2] + blocks[n - 1][3] # blocks[n][2]}
        First(k) == CHOOSE n \in heads : Cardinality({h \in heads : h <= n}) = k
        Final(n) == Min({h - 1 : h \in {h \in heads : h > n}} \cup {Len(blocks)})
    IN [k \in 1..Cardinality(heads) |->
          <<blocks[First(k)][1], blocks[First(k)][2],
            blocks[Final(First(k))][1] + blocks[Final(First(k))][3] - blocks[First(k)][1]>>]

\* difflib.SequenceMatcher.get_opcodes(): the opcodes from the n-th matching
\* block on, i and j being the ends of the block before it
RECURSIVE Opcodes(_, _, _, _)
Opcodes(blocks, n, i, j) ==
    IF n > Len(blocks) THEN <<>>
    ELSE (IF i < blocks[n][1] /\ j < blocks[n][2]
            THEN <<[tag |-> "replace", i1 |-> i, i2 |-> blocks[n][1],
                    j1 |-> j, j2 |-> blocks[n][2]]>>
          ELSE IF i < blocks[n][1]
            THEN <<[tag |-> "delete", i1 |-> i, i2 |-> blocks[n][1],
                    j1 |-> j, j2 |-> blocks[n][2]]>>
          ELSE IF j < blocks[n][2]
            THEN <<[tag |-> "insert", i1 |-> i, i2 |-> blocks[n][1],
                    j1 |-> j, j2 |-> blocks[n][2]]>>
          ELSE <<>>)
         \o (IF blocks[n][3] > 0
               THEN <<[tag |-> "equal", i1 |-> blocks[n][1],
                       i2 |-> blocks[n][1] + blocks[n][3],
                       j1 |-> blocks[n][2], j2 |-> blocks[n][2] + blocks[n][3]]>>
             ELSE <<>>)
         \o Opcodes(blocks, n + 1, blocks[n][1] + blocks[n][3],
                    blocks[n][2] + blocks[n][3])

\* lines 800-822: the edits of the opcodes from the n-th on
RECURSIVE LineEdits(_, _, _, _)
LineEdits(opcodes, n, orig_lines, fixed_lines) ==
    IF n > Len(opcodes) THEN <<>>
    ELSE (IF opcodes[n].tag = "replace"
            \* zip() ends with the shorter of the two blocks
            THEN [idx \in 1..Min({opcodes[n].i2 - opcodes[n].i1,
                                  opcodes[n].j2 - opcodes[n].j1}) |->
                    [type |-> "replace", line |-> opcodes[n].i1 + idx,
                     old_content |-> orig_lines[opcodes[n].i1 + idx],
                     new_content |-> fixed_lines[opcodes[n].j1 + idx]]]
          ELSE IF opcodes[n].tag = "delete"
            THEN [idx \in 1..(opcodes[n].i2 - opcodes[n].i1) |->
                    [type |-> "delete", line |-> opcodes[n].i1 + idx,
                     content |-> orig_lines[opcodes[n].i1 + idx]]]
          ELSE IF opcodes[n].tag = "insert"
            THEN [idx \in 1..(opcodes[n].j2 - opcodes[n].j1) |->
                    [type |-> "insert", after_line |-> opcodes[n].i1,
                     content |-> fixed_lines[opcodes[n].j1 + idx]]]
          ELSE <<>>)
         \o LineEdits(opcodes, n + 1, orig_lines, fixed_lines)

\* generate_line_edits: the list of edits, each a record with the keys of the
\* source's dictionary
generate_line_edits(original, fixed) ==
    LineEdits(Opcodes(MatchingBlocks(SortedBlocks(SplitLines(original), SplitLines(fixed),
                                                   0, Len(SplitLines(original)),
                                                   0, Len(SplitLines(fixed))))
                        \o << <<Len(SplitLines(original)), Len(SplitLines(fixed)), 0>> >>,
                      1, 0, 0),
              1, SplitLines(original), SplitLines(fixed))

(***************************************************************************)
(* run_in_docker.  The backend's behaviour during one call is the record   *)
(* world, one outcome for every call the function makes:                   *)
(*   write         "ok" or "fault": open()/write() of user_script.py       *)
(*   connect       "ok" or "fault": docker.from_env()                      *)
(*   run           "ok", "ImageNotFound" or "fault": client.containers.run *)
(*   wait          "exit", "timeout" (the 5 s deadline elapsed) or "fault" *)
(*                 (any other exception of container.wait)                 *)
(*   exit_code     result.get('StatusCode', 1)                             *)
(*   logs          the decoded text of container.logs(), or Fault when     *)
(*                 logs() or decode() raises                               *)
(*   remove        <<first, second>>: "ok" or "fault" for the first and    *)
(*                 the second call of container.remove()                   *)
(*   kill          "ok" or "fault": container.kill()                       *)
(*   remove_force  "ok" or "fault": container.remove(force=True)           *)
(*   message       str(e) of the exception a fault raises                  *)
(* The result is [trace, container, calls]: the returned ExecutionTrace    *)
(* (without timestamp and execution_time, which are wall-clock readings),  *)
(* the state the call leaves its container in ("none" when none was        *)
(* created, "running", "exited" or "removed"), and the backend calls made. *)
(***************************************************************************)
Fault == <<"Fault">>

\* NewTrace that keeps no snapshot of the code
NewTrace_NoSnapshot(code) ==
    [iteration |-> 0, code_snapshot |-> <<>>, success |-> FALSE, output |-> <<>>,
     error_type |-> None, stack_trace |-> None, logs |-> <<>>]

\* lines 855-861
NewTrace(code) ==
    [iteration |-> 0, code_snapshot |-> code, success |-> FALSE, output |-> <<>>,
     error_type |-> None, stack_trace |-> None, logs |-> <<>>]

\* SandboxErrorExit that leaves the trace's error_type unset
SandboxErrorExit_Untyped(code, world, container, calls) ==
    [trace |-> [NewTrace(code) EXCEPT
                   !.output = <<"U","n","e","x","p","e","c","t","e","d"," ","e","r","r","o",
                                "r",":"," ">> (* Unexpected error:  *) \o world.message],
     container |-> IF world.remove_force = "ok" THEN "removed" ELSE container,
     calls |-> calls \o <<"remove_force">>]

\* lines 953-961: the handler of the outer try, with a container at hand
SandboxErrorExit(code, world, container, calls) ==
    [trace |-> [NewTrace(code) EXCEPT
                   !.output = <<"U","n","e","x","p","e","c","t","e","d"," ","e","r","r","o",
                                "r",":"," ">> (* Unexpected error:  *) \o world.message,
                   !.error_type = <<"S","a","n","d","b","o","x","E","r","r","o","r">> (* SandboxError *)],
     container |-> IF world.remove_force = "ok" THEN "removed" ELSE container,
     calls |-> calls \o <<"remove_force">>]

\* lines 941-947: the handler of the inner try; container is the state of
\* the container when the handler is entered, nth the index of the
\* container.remove() call it makes
TimeoutExit(code, world, container, calls, nth) ==
    IF world.kill = "fault"
      THEN SandboxErrorExit(code, world, container, calls \o <<"kill">>)
    ELSE IF world.remove[nth] = "fault"
      THEN SandboxErrorExit(code, world,
                            IF container = "removed" THEN "removed" ELSE "exited",
                            calls \o <<"kill", "remove">>)
    ELSE [trace |-> [NewTrace(code) EXCEPT
                        !.output = <<"T","I","M","E","O","U","T"," ","E","R","R","O","R",
                                     ":"," ","E","x","e","c","u","t","i","o","n"," ","e",
                                     "x","c","e","e","d","e","d"," ","5"," ","s","e","c",
                                     "o","n","d","s","."," ","P","o","s","s","i","b","l",
                                     "e"," ","i","n","f","i","n","i","t","e"," ","l","o",
                                     "o","p"," ","d","e","t","e","c","t","e","d",".">>
                                     (* TIMEOUT ERROR: Execution exceeded 5 seconds. Possible infinite loop detected. *),
                        !.error_type = <<"T","i","m","e","o","u","t","E","r","r","o","r">> (* TimeoutError *)],
          container |-> "removed",
          calls |-> calls \o <<"kill", "remove">>]

\* lines 903-915: the text kept as the run's output
CapturedLogs(logs, exit_code) ==
    LET shown == IF Len(logs) = 0 \/ Len(Strip(logs)) = 0
                   THEN IF exit_code = 0
                          THEN <<"E","x","e","c","u","t","i","o","n"," ","c","o","m","p",
                                 "l","e","t","e","d"," ","s","u","c","c","e","s","s","f",
                                 "u","l","l","y"," ","w","i","t","h"," ","n","o"," ","o",
                                 "u","t","p","u","t",".">>
                                 (* Execution completed successfully with no output. *)
                        ELSE <<"P","r","o","c","e","s","s"," ","e","x","i","t","e","d"," ",
                               "w","i","t","h"," ","c","o","d","e"," ">> (* Process exited with code  *) \o IntText(exit_code)
                               \o <<" ","b","u","t"," ","p","r","o","d","u","c","e","d"," ",
                                    "n","o"," ","o","u","t","p","u","t",".">> (*  but produced no output. *)
                 ELSE logs
    IN IF exit_code = 137
         THEN shown
                \o <<NL, "U+274C">> \o <<" ","S","Y","S","T","E","M"," ","A","L","E","R",
                                         "T",":"," ","P","r","o","c","e","s","s"," ","w",
                                         "a","s"," ","k","i","l","l","e","d"," ","b","y",
                                         " ","t","h","e"," ","K","e","r","n","e","l"," ",
                                         "(","O","u","t"," ","o","f"," ","M","e","m","o",
                                         "r","y",")",".">>
                                         (*  SYSTEM ALERT: Process was killed by the Kernel (Out of Memory). *)
                \o <<"\n","D","i","a","g","n","o","s","i","s",":"," ","T","h","e"," ","c",
                     "o","d","e"," ","t","r","i","e","d"," ","t","o"," ","u","s","e"," ",
                     "m","o","r","e"," ","t","h","a","n"," ","1","2","8","M","B"," ","o",
                     "f"," ","R","A","M",".">>
                     (* \nDiagnosis: The code tried to use more than 128MB of RAM. *)
                \o <<"\n","F","i","x"," ","R","e","q","u","i","r","e","d",":"," ","R","e",
                     "d","u","c","e"," ","d","a","t","a"," ","s","i","z","e",","," ","l",
                     "i","s","t"," ","s","i","z","e",","," ","o","r"," ","u","s","e"," ",
                     "g","e","n","e","r","a","t","o","r","s",".">>
                     (* \nFix Required: Reduce data size, list size, or use generators. *)
       ELSE shown

\* ValidatedTrace that takes every verdict for a pass
ValidatedTrace_Passed(trace, logs, verdict) == [trace EXCEPT !.success = TRUE]

\* lines 923-927 and 932-939: the trace of a run that exited with 0, given
\* the verdict of validate_logical_correctness
ValidatedTrace(trace, logs, verdict) ==
    IF verdict.is_valid THEN [trace EXCEPT !.success = TRUE]
    ELSE [trace EXCEPT
            !.error_type = <<"L","o","g","i","c","a","l","E","r","r","o","r">> (* LogicalError *),
            !.stack_trace = verdict.error,
            !.output = logs \o <<NL, NL>> \o [i \in 1..50 |-> "="]
                         \o <<"\n","L","O","G","I","C","A","L"," ","E","R","R","O","R"," ",
                              "D","E","T","E","C","T","E","D",":","\n">> (* \nLOGICAL ERROR DETECTED:\n *)
                         \o [i \in 1..50 |-> "="] \o <<NL>>
                         \o verdict.error]

\* lines 919-939: the trace of a run that ended, logs being the text kept
JudgedTrace(code, exit_code, logs) ==
    IF exit_code = 0
      THEN ValidatedTrace([NewTrace(code) EXCEPT
                              !.output = logs,
                              !.logs = extract_logs_from_output(logs)],
                          logs, validate_logical_correctness(code, logs))
    ELSE [NewTrace(code) EXCEPT !.output = logs,
                                !.logs = extract_logs_from_output(logs),
                                !.error_type = parse_error_type(logs),
                                !.stack_trace = logs]

\* lines 917-947: the container is removed and the run is judged; a
\* ValueError of validate_logical_correctness is caught by the handler of
\* the inner try like any other exception
CompletedExit(code, world, calls) ==
    IF /\ world.exit_code = 0
       /\ validate_logical_correctness(code, CapturedLogs(world.logs, 0)) = ValueError
      \* line 921 has already filled trace.logs
      THEN [TimeoutExit(code, world, "removed", calls \o <<"remove">>, 2)
               EXCEPT !.trace.logs = extract_logs_from_output(CapturedLogs(world.logs, 0))]
    ELSE [trace |-> JudgedTrace(code, world.exit_code,
                                CapturedLogs(world.logs, world.exit_code)),
          container |-> "removed",
          calls |-> calls \o <<"remove">>]

run_in_docker(code, world) ==
    IF world.write = "fault"
      THEN [trace |-> [NewTrace(code) EXCEPT
                          !.output = <<"F","a","i","l","e","d"," ","t","o"," ","w","r","i",
                                       "t","e"," ","s","c","r","i","p","t",":"," ">>
                                       (* Failed to write script:  *) \o world.message,
                          !.error_type = <<"I","O","E","r","r","o","r">> (* IOError *)],
            container |-> "none",
            calls |-> <<"write">>]
    ELSE IF world.connect = "fault"
      THEN [trace |-> [NewTrace(code) EXCEPT
                          !.output = <<"D","o","c","k","e","r"," ","E","r","r","o","r",":",
                                       " ","D","o","c","k","e","r"," ","D","e","s","k","t",
                                       "o","p"," ","i","s"," ","n","o","t"," ","r","u","n",
                                       "n","i","n","g",".","\n">>
                                       (* Docker Error: Docker Desktop is not running.\n *)
                                       \o world.message,
                          !.error_type = <<"D","o","c","k","e","r","C","o","n","n","e","c",
                                           "t","i","o","n","E","r","r","o","r">> (* DockerConnectionError *)],
            container |-> "none",
            calls |-> <<"write", "from_env">>]
    ELSE IF world.run = "ImageNotFound"
      THEN [trace |-> [NewTrace(code) EXCEPT
                          !.output = <<"D","o","c","k","e","r"," ","E","r","r","o","r",":",
                                       " ","I","m","a","g","e"," ","'","m","y","-","s","a",
                                       "f","e","-","s","a","n","d","b","o","x","'"," ","n",
                                       "o","t"," ","f","o","u","n","d",".">>
                                       (* Docker Error: Image 'my-safe-sandbox' not found. *),
                          !.error_type = <<"I","m","a","g","e","N","o","t","F","o","u","n",
                                           "d","E","r","r","o","r">> (* ImageNotFoundError *)],
            container |-> "none",
            calls |-> <<"write", "from_env", "run">>]
    ELSE IF world.run = "fault"
      \* container is still None: nothing is removed
      THEN [trace |-> [NewTrace(code) EXCEPT
                          !.output = <<"U","n","e","x","p","e","c","t","e","d"," ","e","r",
                                       "r","o","r",":"," ">> (* Unexpected error:  *) \o world.message,
                          !.error_type = <<"S","a","n","d","b","o","x","E","r","r","o","r">>
                                           (* SandboxError *)],
            container |-> "none",
            calls |-> <<"write", "from_env", "run">>]
    ELSE IF world.wait # "exit"
      THEN TimeoutExit(code, world, "running",
                       <<"write", "from_env", "run", "wait">>, 1)
    ELSE IF world.logs = Fault
      THEN TimeoutExit(code, world, "exited",
                       <<"write", "from_env", "run", "wait", "logs">>, 1)
    ELSE IF world.remove[1] = "fault"
      THEN TimeoutExit(code, world, "exited",
                       <<"write", "from_env", "run", "wait", "logs", "remove">>, 2)
    ELSE CompletedExit(code, world, <<"write", "from_env", "run", "wait", "logs">>)

(***************************************************************************)
(* Inputs of the model                                                     *)
(***************************************************************************)
\* the number of sandbox runs a session is followed for; the loop of main
\* itself has no ceiling (while True)
MaxIterations == 2

\* the spec's division scenario
ProgDivision == <<"x","=","1","0","0",";"," ","y","=","0",";"," ","p","r","i","n","t","(",
                  "x","/","y",")">> (* x=100; y=0; print(x/y) *)
\* a function, indented with a tab
ProgFunction == <<"d","e","f"," ","d","i","v","i","d","e","(","a",","," ","b",")",":","\n",
                  "\t","r","e","t","u","r","n"," ","a"," ","/"," ","b","\n","p","r","i","n",
                  "t","(","d","i","v","i","d","e","(","1",","," ","0",")",")">>
                  (* def divide(a, b):\n\treturn a / b\nprint(divide(1, 0)) *)
\* a function whose name the logical-correctness check reads as a contract
ProgPostorder == <<"d","e","f"," ","p","o","s","t","o","r","d","e","r","(","n",")",":","\n",
                   " "," "," "," ","p","a","s","s">> (* def postorder(n):\n    pass *)
\* a class and a function
ProgClass == <<"c","l","a","s","s"," ","A",":","\n"," "," "," "," ","p","a","s","s","\n",
               "d","e","f"," ","f","(",")",":","\n"," "," "," "," ","r","e","t","u","r","n",
               " ","A","(",")">> (* class A:\n    pass\ndef f():\n    return A() *)
Programs == {ProgDivision, ProgFunction, ProgPostorder, ProgClass, <<"p","r","i","n","t",
                                                                     "(","1","/","0",")">> (* print(1/0) *)}

\* texts a sandboxed process can print
LogDivision == <<"T","r","a","c","e","b","a","c","k"," ","(","m","o","s","t"," ","r","e",
                 "c","e","n","t"," ","c","a","l","l"," ","l","a","s","t",")",":","\n","Z",
                 "e","r","o","D","i","v","i","s","i","o","n","E","r","r","o","r",":"," ",
                 "d","i","v","i","s","i","o","n"," ","b","y"," ","z","e","r","o","\n">>
                 (* Traceback (most recent call last):\nZeroDivisionError: division by zero\n *)
LogName == <<"N","a","m","e","E","r","r","o","r",":"," ","n","a","m","e"," ","'","y","'",
             " ","i","s"," ","n","o","t"," ","d","e","f","i","n","e","d">>
             (* NameError: name 'y' is not defined *)
ExitCodes == {0, 1, 137}
Messages == {<<>>, <<"c","o","n","n","e","c","t","i","o","n"," ","r","e","s","e","t">> (* connection reset *)}

BaseWorld ==
    [write |-> "ok", connect |-> "ok", run |-> "ok", wait |-> "exit", exit_code |-> 0,
     logs |-> <<>>, remove |-> <<"ok", "ok">>, kill |-> "ok", remove_force |-> "ok",
     message |-> <<>>]

\* the worlds that differ from w in how the handlers' cleanup calls end; nth
\* is the index of the container.remove() call the inner handler makes
Cleanups(w, nth) ==
    {[w EXCEPT !.kill = k, !.remove[nth] = r, !.remove_force = f, !.message = m] :
        k \in {"ok", "fault"}, r \in {"ok", "fault"}, f \in {"ok", "fault"},
        m \in Messages}

\* one world for every path of run_in_docker
Worlds ==
    {[BaseWorld EXCEPT !.write = "fault", !.message = m] : m \in Messages}
    \cup {[BaseWorld EXCEPT !.connect = "fault", !.message = m] : m \in Messages}
    \cup {[BaseWorld EXCEPT !.run = r, !.message = m] :
             r \in {"ImageNotFound", "fault"}, m \in Messages}
    \cup UNION {Cleanups([BaseWorld EXCEPT !.wait = x], 1) : x \in {"timeout", "fault"}}
    \cup UNION {Cleanups([BaseWorld EXCEPT !.logs = Fault, !.exit_code = e], 1) :
                   e \in ExitCodes}
    \cup UNION {Cleanups([BaseWorld EXCEPT !.remove[1] = "fault", !.exit_code = e], 2) :
                   e \in ExitCodes}
    \* the texts a sandboxed process prints; the last one is a height of more
    \* digits than int() converts
    \cup {[BaseWorld EXCEPT !.exit_code = e, !.logs = l] :
             e \in ExitCodes,
             l \in {<<>>, <<" ","\n">>, <<"5","\n">>, LogDivision, LogName,
                    <<"h","e","i","g","h","t",":"," ">> (* height:  *) \o [i \in 1..(MaxStrDigits + 1) |-> "0"]}}

\* the worlds the sessions of the repair loop are run against
LoopWorlds ==
    { BaseWorld,
      [BaseWorld EXCEPT !.exit_code = 1, !.logs = LogDivision],
      [BaseWorld EXCEPT !.logs = <<"E","r","r","o","r",":"," ","D","i","v","i","s","i","o",
                                   "n"," ","b","y"," ","z","e","r","o","\n">> (* Error: Division by zero\n *)],
      [BaseWorld EXCEPT !.wait = "timeout", !.kill = "fault", !.remove_force = "fault"],
      [BaseWorld EXCEPT !.remove[1] = "fault", !.kill = "fault"],
      [BaseWorld EXCEPT !.connect = "fault"] }

\* candidate programs an advisory answer can carry
CandGuarded == <<"t","r","y",":","\n"," "," "," "," ","p","r","i","n","t","(","1","0","0",
                 "/","0",")","\n","e","x","c","e","p","t"," ","Z","e","r","o","D","i","v",
                 "i","s","i","o","n","E","r","r","o","r",":","\n"," "," "," "," ","p","r",
                 "i","n","t","(","0",")">>
                 (* try:\n    print(100/0)\nexcept ZeroDivisionError:\n    print(0) *)
CandFenced == <<"U+0060","U+0060","U+0060","p","y","t","h","o","n","\n","d","e","f"," ","d",
                "i","v","i","d","e","(","a",","," ","b",")",":","\\","n","\\","t","r","e",
                "t","u","r","n"," ","0","\n","U+0060","U+0060","U+0060">>
                (* ```python\ndef divide(a, b):\\n\\treturn 0\n``` *)
CandOther == <<"p","r","i","n","t","(","'","h","e","l","l","o"," ","w","o","r","l","d","'",
               ")">> (* print('hello world') *)
Candidates == {CandGuarded, CandFenced, CandOther, <<"p","a","s","s">> (* pass *), <<>>, <<
                                                                                           "1",
                                                                                           "/",
                                                                                           "0">> (* 1/0 *),
               <<"d","e","f"," ","f","(",")",":","\n"," "," "," "," ","r","e","t","u","r",
                 "n"," ","1">> (* def f():\n    return 1 *)}

BaseReply ==
    [fault |-> "none", status_code |-> 200, body |-> "object", response |-> "object",
     explanation |-> Absent, fixed_code |-> Absent, reasoning |-> Absent]

\* one answer for every path of get_ai_fix
Replies ==
    {[BaseReply EXCEPT !.fault = f] : f \in {"ConnectionError", "Timeout", "Exception"}}
    \cup {[BaseReply EXCEPT !.status_code = 500]}
    \cup {[BaseReply EXCEPT !.body = b] : b \in {"malformed", "value"}}
    \cup {[BaseReply EXCEPT !.response = r] :
             r \in {"absent", "nontext", "malformed", "value"}}
    \cup {[BaseReply EXCEPT !.explanation = e, !.fixed_code = c, !.reasoning = r] :
             e \in {Absent, None, <<>>, <<"G","u","a","r","d","e","d"," ","t","h","e"," ",
                                          "d","i","v","i","s","i","o","n">> (* Guarded the division *)},
             c \in Candidates \cup {Absent, None, NonText},
             r \in {Absent, None, Array, <<>>, <<"T","h","e"," ","d","i","v","i","s","o",
                                                 "r"," ","c","a","n"," ","b","e"," ","z",
                                                 "e","r","o">> (* The divisor can be zero *)}}

\* the answers the sessions of the repair loop are run against
LoopReplies ==
    { [BaseReply EXCEPT !.fault = "ConnectionError"],
      [BaseReply EXCEPT !.explanation = <<"G","u","a","r","d","e","d"," ","t","h","e"," ",
                                          "d","i","v","i","s","i","o","n">> (* Guarded the division *),
                        !.fixed_code = CandGuarded,
                        !.reasoning = <<"T","h","e"," ","d","i","v","i","s","o","r"," ","c",
                                        "a","n"," ","b","e"," ","z","e","r","o">>
                                        (* The divisor can be zero *)],
      [BaseReply EXCEPT !.fixed_code = CandOther, !.reasoning = None],
      [BaseReply EXCEPT !.fixed_code = CandOther, !.reasoning = Array] }

\* error outputs get_ai_fix is called with
ErrorLogs == {LogDivision, LogName,
              <<"T","I","M","E","O","U","T"," ","E","R","R","O","R",":"," ","E","x","e","c",
                "u","t","i","o","n"," ","e","x","c","e","e","d","e","d"," ","5"," ","s","e",
                "c","o","n","d","s","."," ","P","o","s","s","i","b","l","e"," ","i","n","f",
                "i","n","i","t","e"," ","l","o","o","p"," ","d","e","t","e","c","t","e","d",
                ".">> (* TIMEOUT ERROR: Execution exceeded 5 seconds. Possible infinite loop detected. *),
              <<"M","o","d","u","l","e","N","o","t","F","o","u","n","d","E","r","r","o","r",
                ":"," ","N","o"," ","m","o","d","u","l","e"," ","n","a","m","e","d"," ","'",
                "n","u","m","p","y","'">> (* ModuleNotFoundError: No module named 'numpy' *)}

\* the sessions that run in one process at the same time
MaxSessions == 2

\* the containers the calls of the sessions leave behind are counted up to
\* this number; the code sets no limit
MaxLeaked == 2

(***************************************************************************)
(* State                                                                   *)
(*   session       the RepairSession of main, None before a run            *)
(*   current_code  main's current_code                                     *)
(*   iteration     main's iteration                                        *)
(*   pc            where main stands: "idle" before the button is pressed, *)
(*                 "execute" at the head of the loop, "running" while a    *)
(*                 call of run_in_docker is under way, "patch" after a     *)
(*                 failed trace was appended, "done" after the break,      *)
(*                 "crashed" after an exception left main, "returned"      *)
(*                 after a call of one function on its own                 *)
(*   containers    the number of containers the backend holds              *)
(*   last_run      the most recent call of run_in_docker, if any, as a     *)
(*                 sequence of at most one record: its code, its world and *)
(*                 what it returned                                        *)
(*   last_fix      the most recent call of get_ai_fix, if any, likewise:   *)
(*                 its arguments, the advisory answer and what it returned *)
(*   last_call     the most recent call of a function without effects      *)
(*                 (parse_error_type, generate_line_edits), if any,        *)
(*                 likewise: its arguments and what it returned            *)
(*   script        the text of user_script.py in the working directory of  *)
(*                 the process, None while there is no such file           *)
(*   inflight      for every session of the process, where its call of     *)
(*                 run_in_docker stands ("idle", "opened" after line 865,  *)
(*                 "written" after line 866, "running" once the            *)
(*                 container's interpreter has read /app/user_script.py,   *)
(*                 "ended" when it returned after line 866, with or        *)
(*                 without a container, or "failed" when it returned an    *)
(*                 IOError trace), the code it was called with and the     *)
(*                 text its container read, None when none did             *)
(*   pending       the call of run_in_docker that is under way: its code   *)
(*                 and its world; None when there is none                  *)
(***************************************************************************)
VARIABLES session, current_code, iteration, pc, containers, last_run, last_fix,
          last_call, script, inflight, pending

vars == <<session, current_code, iteration, pc, containers, last_run, last_fix,
          last_call, script, inflight, pending>>

Init == /\ session = None
        /\ current_code = <<>>
        /\ iteration = 0
        /\ pc = "idle"
        /\ containers = 0
        /\ last_run = <<>>
        /\ last_fix = <<>>
        /\ last_call = <<>>
        /\ script = None
        /\ inflight = [s \in 1..MaxSessions |-> [pc |-> "idle", code |-> <<>>, ran |-> None]]
        /\ pending = None

\* a container the call created and did not remove
Leaked(result) == IF result.container \in {"running", "exited"} THEN 1 ELSE 0

\* lines 1573-1581: the button is pressed on a non-blank editor
Start ==
    /\ pc = "idle"
    \* what the editor can hold when the button is pressed
    /\ \E code_input \in {ProgDivision, ProgFunction, ProgPostorder, <<>>, <<" "," ","\n">> (*   \n *)} :
          /\ Len(Strip(code_input)) > 0
          /\ session' = [original_code |-> code_input, final_code |-> code_input,
                         execution_traces |-> <<>>, patch_logs |-> <<>>,
                         total_iterations |-> 0, success |-> FALSE,
                         failure_reason |-> None]
          /\ current_code' = code_input
    /\ iteration' = 0
    /\ pc' = "execute"
    /\ UNCHANGED <<containers, last_run, last_fix,
                   last_call, script, inflight, pending>>

\* lines 863-866: what user_script.py can hold once the with-block is left.
\* In a world whose write fails either open() raises and the file is as it
\* was, or open() has emptied or created the file and the write fails with
\* none or only the first characters of the code in the file
Staged(world, code) ==
    IF world.write = "ok" THEN {code}
    ELSE {script} \cup {SubSeq(code, 1, n) : n \in 0..(Len(code) - 1)}

\* lines 871-893: the call starts a container
Started(world) ==
    IF world.write = "ok" /\ world.connect = "ok" /\ world.run = "ok" THEN 1 ELSE 0

\* CountIteration that leaves the session's count of iterations as it was
CountIteration_Skipped(s, count) == s

\* line 1586
CountIteration(s, count) == [s EXCEPT !.total_iterations = count]

\* lines 1585-1593 and 863-897: the iteration is counted, the script staged
\* and the container started; main then waits for the container
Launch ==
    /\ pc = "execute"
    /\ iteration < MaxIterations
    /\ iteration' = iteration + 1
    /\ session' = CountIteration(session, iteration + 1)
    /\ \E world \in LoopWorlds :
          /\ pending' = [code |-> current_code, world |-> world]
          /\ script' \in Staged(world, current_code)
          /\ containers' = containers + Started(world)
    /\ pc' = "running"
    /\ UNCHANGED <<current_code, last_run, last_fix, last_call, inflight>>

\* lines 1594-1595: the run's trace joins the session
AppendTrace(s, trace, count) ==
    [s EXCEPT !.execution_traces = Append(@, [trace EXCEPT !.iteration = count])]

\* MarkSuccess without the success flag
MarkSuccess_Unflagged(s, code) == [s EXCEPT !.final_code = code]

\* lines 1597-1609: the session is marked successful on the code that ran
MarkSuccess(s, code) == [s EXCEPT !.success = TRUE, !.final_code = code]

\* lines 1593-1609: what main does with the result of the run
Executed(world, result) ==
    /\ last_run' = <<[code |-> current_code, world |-> world, result |-> result]>>
    /\ containers' = containers - Started(world) + Leaked(result)
    /\ IF result.trace.success
         THEN /\ session' = MarkSuccess(AppendTrace(session, result.trace, iteration),
                                        current_code)
              /\ pc' = "done"
       ELSE /\ session' = AppendTrace(session, result.trace, iteration)
            /\ pc' = "patch"

\* lines 897-963 and 1593-1609: the wait ends, run_in_docker returns and its
\* trace is recorded
Execute ==
    /\ pc = "running"
    /\ Executed(pending.world, run_in_docker(current_code, pending.world))
    /\ pending' = None
    /\ UNCHANGED <<current_code, iteration, last_fix, last_call, script, inflight>>

\* line 1616: the error output handed to get_ai_fix
ErrorOutput(trace) ==
    IF Len(trace.output) > 0 /\ Len(Strip(trace.output)) > 0
      THEN trace.output
    ELSE <<"N","o"," ","e","r","r","o","r"," ","o","u","t","p","u","t"," ","c","a","p","t",
           "u","r","e","d","."," ","E","x","e","c","u","t","i","o","n"," ","f","a","i","l",
           "e","d"," ","s","i","l","e","n","t","l","y",".">>
           (* No error output captured. Execution failed silently. *)

\* NewPatch that numbers every record with the iteration before the first
NewPatch_Unnumbered(count, code, fix) ==
    [iteration |-> 0, original_code |-> code, fixed_code |-> fix.fixed_code,
     explanation |-> fix.explanation, reasoning |-> fix.reasoning]

\* lines 1638-1647: the PatchRecord of an iteration (without its diff, line
\* edits and timestamp)
NewPatch(count, code, fix) ==
    [iteration |-> count, original_code |-> code, fixed_code |-> fix.fixed_code,
     explanation |-> fix.explanation, reasoning |-> fix.reasoning]

\* AppendPatch that drops the record
AppendPatch_Dropped(s, patch) == s

\* line 1648
AppendPatch(s, patch) == [s EXCEPT !.patch_logs = Append(@, patch)]

\* line 1670: the code the next iteration runs
NextCode(fix) == clean_code_string(fix.fixed_code)

\* lines 1638-1675: what main does with the fix get_ai_fix returned
Patched(reply, error_output, fix) ==
    /\ last_fix' = <<[bad_code |-> current_code, error_log |-> error_output,
                      reply |-> reply, result |-> fix]>>
    \* reasoning[:300] and len(reasoning) of line 1656 work on a text and on a
    \* list
    /\ IF IsText(fix.reasoning) \/ fix.reasoning = Array
         THEN /\ current_code' = NextCode(fix)
              /\ session' = [AppendPatch(session, NewPatch(iteration, current_code, fix))
                               EXCEPT !.final_code = NextCode(fix)]
              /\ pc' = "execute"
       \* reasoning[:300] at line 1656 raises TypeError
       ELSE /\ current_code' = current_code
            /\ session' = AppendPatch(session, NewPatch(iteration, current_code, fix))
            /\ pc' = "crashed"

\* the trace of the iteration under repair
LastTrace == session.execution_traces[Len(session.execution_traces)]

\* lines 1611-1675: the patch step of a failed iteration
Patch ==
    /\ pc = "patch"
    /\ \E reply \in LoopReplies :
          Patched(reply, ErrorOutput(LastTrace),
                  get_ai_fix(current_code, ErrorOutput(LastTrace), reply))
    /\ UNCHANGED <<iteration, containers, last_run,
                   last_call, script, inflight, pending>>

Next == Start \/ Launch \/ Execute \/ Patch

Spec == Init /\ [][Next]_vars

(***************************************************************************)
(* run_in_docker on its own: any program against any world                 *)
(***************************************************************************)
\* lines 852-893: the call stages its script and starts its container, then
\* waits for the container.  The programs are those of Programs and one whose
\* printed height validate_logical_correctness converts
RunLaunch ==
    /\ pc = "idle"
    /\ \E code \in Programs
                    \cup {<<"d","e","f"," ","h","e","i","g","h","t","(","r","o","o","t",")",
                            ":","\n"," "," "," "," ","r","e","t","u","r","n"," ","0","\n",
                            "p","r","i","n","t","(","'","h","e","i","g","h","t",":","'",",",
                            " ","h","e","i","g","h","t","(","N","o","n","e",")",")">>
                            (* def height(root):\n    return 0\nprint('height:', height(None)) *)},
          world \in Worlds :
          /\ pending' = [code |-> code, world |-> world]
          /\ script' \in Staged(world, code)
          /\ containers' = containers + Started(world)
    /\ pc' = "running"
    /\ UNCHANGED <<session, current_code, iteration, last_run, last_fix,
                   last_call, inflight>>

\* lines 897-963: the wait ends and the call returns its trace
RunCall ==
    /\ pc = "running"
    /\ last_run' = <<[code |-> pending.code, world |-> pending.world,
                      result |-> run_in_docker(pending.code, pending.world)]>>
    /\ containers' = containers - Started(pending.world)
                       + Leaked(run_in_docker(pending.code, pending.world))
    /\ pending' = None
    /\ pc' = "returned"
    /\ UNCHANGED <<session, current_code, iteration, last_fix,
                   last_call, script, inflight>>

SpecRun == Init /\ [][RunLaunch \/ RunCall]_vars

(***************************************************************************)
(* get_ai_fix on its own: any program and error output against any answer  *)
(***************************************************************************)
FixCall ==
    /\ pc = "idle"
    /\ \E bad_code \in Programs, error_log \in ErrorLogs, reply \in Replies :
          last_fix' = <<[bad_code |-> bad_code, error_log |-> error_log,
                         reply |-> reply,
                         result |-> get_ai_fix(bad_code, error_log, reply)]>>
    /\ pc' = "returned"
    /\ UNCHANGED <<session, current_code, iteration, containers, last_run,
                   last_call, script, inflight, pending>>

SpecFix == Init /\ [][FixCall]_vars

(***************************************************************************)
(* parse_error_type on its own: any of the texts below                     *)
(***************************************************************************)
\* the texts: what precedes an error line, the error line, and what follows
ParseInputs ==
    {h \o m \o t :
        h \in {<<>>, <<" ">>, <<"K","i","l","l","e","d"," ","1","3","7"," ">> (* Killed 137  *), <<
                                                                                                   "O",
                                                                                                   "u",
                                                                                                   "t",
                                                                                                   " ",
                                                                                                   "o",
                                                                                                   "f",
                                                                                                   " ",
                                                                                                   "M",
                                                                                                   "e",
                                                                                                   "m",
                                                                                                   "o",
                                                                                                   "r",
                                                                                                   "y",
                                                                                                   " ">>
                                                                                                   (* Out of Memory  *), <<
                                                                                                                           "t",
                                                                                                                           "i",
                                                                                                                           "m",
                                                                                                                           "e",
                                                                                                                           "o",
                                                                                                                           "u",
                                                                                                                           "t",
                                                                                                                           " ">>
                                                                                                                           (* timeout  *)},
        m \in {<<>>, <<"V","a","l","u","e","E","r","r","o","r",":"," ","x">> (* ValueError: x *), <<
                                                                                                    "E",
                                                                                                    "r",
                                                                                                    "r",
                                                                                                    "o",
                                                                                                    "r",
                                                                                                    ":",
                                                                                                    " ",
                                                                                                    "x">>
                                                                                                    (* Error: x *), <<
                                                                                                                      "M",
                                                                                                                      "y",
                                                                                                                      "E",
                                                                                                                      "x",
                                                                                                                      "c",
                                                                                                                      "e",
                                                                                                                      "p",
                                                                                                                      "t",
                                                                                                                      "i",
                                                                                                                      "o",
                                                                                                                      "n",
                                                                                                                      ":",
                                                                                                                      " ",
                                                                                                                      "y">>
                                                                                                                      (* MyException: y *),
               <<"U","s","e","r","W","a","r","n","i","n","g",":"," ","z">> (* UserWarning: z *), <<
                                                                                                   "M",
                                                                                                   "e",
                                                                                                   "m",
                                                                                                   "o",
                                                                                                   "r",
                                                                                                   "y",
                                                                                                   "E",
                                                                                                   "r",
                                                                                                   "r",
                                                                                                   "o",
                                                                                                   "r",
                                                                                                   ":">>
                                                                                                   (* MemoryError: *)},
        t \in {<<>>, <<NL>>, <<" ","N","o"," ","m","o","d","u","l","e"," ","n","a","m","e",
                               "d"," ","'","n","p","'">> (*  No module named 'np' *), <<" ",
                                                                                        "d",
                                                                                        "o",
                                                                                        "n",
                                                                                        "e">> (*  done *)}}

ParseCall ==
    /\ pc = "idle"
    /\ \E error_log \in ParseInputs :
          last_call' = <<[error_log |-> error_log,
                          result |-> parse_error_type(error_log)]>>
    /\ pc' = "returned"
    /\ UNCHANGED <<session, current_code, iteration, containers, last_run, last_fix,
                   script, inflight, pending>>

SpecParse == Init /\ [][ParseCall]_vars

(***************************************************************************)
(* generate_line_edits on its own: any two of the texts below              *)
(***************************************************************************)
\* the texts of at most three lines over two lines of code, and texts that
\* end in a line break or hold an empty line
EditTexts ==
    {Join(lines, <<NL>>) :
        lines \in UNION {[1..n -> {<<"a"," ","="," ","1">> (* a = 1 *), <<"b"," ","="," ",
                                                                          "2">> (* b = 2 *)}] : n \in 0..3}}
    \cup {<<"a"," ","="," ","1","\n">> (* a = 1\n *), <<NL>>, <<"a"," ","="," ","1","\n",
                                                                "\n","b"," ","="," ","2">>
                                                                (* a = 1\n\nb = 2 *)}

EditsCall ==
    /\ pc = "idle"
    /\ \E original \in EditTexts, fixed \in EditTexts :
          last_call' = <<[original |-> original, fixed |-> fixed,
                          edits |-> generate_line_edits(original, fixed)]>>
    /\ pc' = "returned"
    /\ UNCHANGED <<session, current_code, iteration, containers, last_run, last_fix,
                   script, inflight, pending>>

SpecEdits == Init /\ [][EditsCall]_vars

(***************************************************************************)
(* The staging of the script by the sessions of one process.  Every        *)
(* session runs main in a thread of its own; the threads share the working *)
(* directory, and with it the path "user_script.py" of line 863 and the    *)
(* directory every container mounts as /app.  A call of run_in_docker is   *)
(* followed through the steps that touch the file.                         *)
(***************************************************************************)
\* line 865: the call of session s opens user_script.py for writing, which
\* empties or creates the file; when open() raises the file is as it was and
\* the call returns its IOError trace (lines 867-871)
StageOpen(s) ==
    /\ inflight[s].pc \in {"idle", "ended", "failed"}
    /\ \E code \in {ProgDivision, ProgFunction} :
          \/ /\ script' = <<>>
             /\ inflight' = [inflight EXCEPT ![s] = [pc |-> "opened", code |-> code,
                                                     ran |-> None]]
          \/ /\ script' = script
             /\ inflight' = [inflight EXCEPT ![s] = [pc |-> "failed", code |-> code,
                                                     ran |-> None]]
    /\ UNCHANGED <<session, current_code, iteration, pc, containers, last_run, last_fix,
                   last_call, pending>>

\* line 866 and the end of the with-block: the code reaches the file from its
\* first byte on, over what the file holds by then; when the write fails
\* none or only the first characters of the code do, and the call returns
\* its IOError trace (lines 867-871)
StageWrite(s) ==
    /\ inflight[s].pc = "opened"
    /\ \E n \in 0..Len(inflight[s].code) :
          /\ script' = SubSeq(inflight[s].code, 1, n) \o SubSeq(script, n + 1, Len(script))
          /\ inflight' = [inflight EXCEPT
                             ![s].pc = IF n = Len(inflight[s].code) THEN "written"
                                       ELSE "failed"]
    /\ UNCHANGED <<session, current_code, iteration, pc, containers, last_run, last_fix,
                   last_call, pending>>

\* lines 873-893: the call connects to the backend and starts its container,
\* whose interpreter reads /app/user_script.py; when docker.from_env or
\* containers.run raises no container is held and the call returns its
\* DockerConnectionError, ImageNotFoundError or SandboxError trace (lines
\* 875-879 and 949-961)
StageRun(s) ==
    /\ inflight[s].pc = "written"
    /\ \/ /\ inflight' = [inflight EXCEPT ![s].pc = "running", ![s].ran = script]
          /\ containers' = containers + 1
       \/ /\ inflight' = [inflight EXCEPT ![s].pc = "ended"]
          /\ containers' = containers
    /\ UNCHANGED <<session, current_code, iteration, pc, last_run, last_fix,
                   last_call, script, pending>>

\* lines 897-963: the container ends or the wait times out, and the call
\* returns its trace.  The container is removed at line 917 or by the
\* handlers (lines 943-944, 956); when kill() or remove() raises and the
\* remove of line 956 raises too, the container is left behind.  The
\* containers left behind are counted up to MaxLeaked
StageEnd(s) ==
    /\ inflight[s].pc = "running"
    /\ inflight' = [inflight EXCEPT ![s].pc = "ended"]
    /\ \/ containers' = containers - 1
       \/ /\ containers - Cardinality({t \in 1..MaxSessions : inflight[t].pc = "running"})
                < MaxLeaked
          /\ containers' = containers
    /\ UNCHANGED <<session, current_code, iteration, pc, last_run, last_fix,
                   last_call, script, pending>>

NextStage ==
    \E s \in 1..MaxSessions : StageOpen(s) \/ StageWrite(s) \/ StageRun(s) \/ StageEnd(s)

SpecStage == Init /\ [][NextStage]_vars

(***************************************************************************)
(* Properties of the repair loop and of the sandbox run                    *)
(***************************************************************************)
\* main holds a session
InSession == pc \in {"execute", "running", "patch", "done", "crashed"}

\* the traces and patch records of the session
Traces == session.execution_traces
Patches == session.patch_logs

\* the most recent calls
LastRun == last_run[1]
LastFix == last_fix[1]

\* the sandboxed process of world w ran and exited with status e
ExitedWith(w, e) ==
    /\ w.write = "ok" /\ w.connect = "ok" /\ w.run = "ok"
    /\ w.wait = "exit" /\ w.exit_code = e

\* the session ended in success after one run, with no patch attempted
SucceededAtOnce ==
    /\ pc = "done"
    /\ session.success
    /\ session.total_iterations = 1
    /\ Len(Traces) = 1
    /\ Patches = <<>>
    /\ last_fix = <<>>

\* C1: the loop has a maximum number of iterations and, when that many
\* iterations have run without a successful trace, the session is aborted with
\* the reason "max iterations reached" instead of standing at the head of the
\* loop for another iteration.  Stated with MaxIterations as the maximum.
C1_AbortsAtMaximum ==
    (/\ InSession
     /\ session.total_iterations = MaxIterations
     /\ Len(Traces) = MaxIterations
     /\ ~session.success
     /\ pc # "patch")
       => /\ pc # "execute"
          /\ session.failure_reason = <<"m","a","x"," ","i","t","e","r","a","t","i","o","n",
                                        "s"," ","r","e","a","c","h","e","d">> (* max iterations reached *)

Passes(verdict) == verdict # ValueError /\ verdict.is_valid

C3_NoContainerOutlivesCall ==
    pc = "returned" /\ last_run # <<>>
       => LastRun.result.container \in {"none", "removed"}

\* the advisory service answered well-formed: an object whose response
\* member parses into an object
Answered(reply) ==
    /\ reply.fault = "none" /\ reply.status_code = 200
    /\ reply.body = "object" /\ reply.response = "object"

\* C4: when the program declares at least one function and the candidate of
\* the advisory answer, as get_ai_fix reads it after clean_code_string,
\* declares none of the program's function names, get_ai_fix returns the
\* program apply_basic_fix returns for the same program and error.
C4_DeletedFunctionsRejected ==
    (/\ pc = "returned" /\ last_fix # <<>>
     /\ Answered(LastFix.reply)
     /\ IsText(LastFix.reply.fixed_code)
     /\ DeclaredNames(LastFix.bad_code, 1, <<"d","e","f">> (* def *)) # {}
     /\ DeclaredNames(LastFix.bad_code, 1, <<"d","e","f">> (* def *))
          \cap DeclaredNames(clean_code_string(LastFix.reply.fixed_code), 1, <<"d","e","f">> (* def *)) = {})
       => LastFix.result.fixed_code
            = apply_basic_fix(LastFix.bad_code, LastFix.error_log).fixed_code

\* a candidate that keeps the program's length and classes but none of its
\* functions was turned down for the functions it deleted
C4_Witness ==
    /\ pc = "returned" /\ last_fix # <<>>
    /\ Answered(LastFix.reply)
    /\ LastFix.bad_code = ProgFunction
    /\ LastFix.reply.fixed_code = CandGuarded
    /\ StartsWith(LastFix.result.explanation, <<"A","I"," ","f","i","x"," ","r","e","j","e",
                                                "c","t","e","d"," ","(","f","u","n","c","t",
                                                "i","o","n","s"," ","d","e","l","e","t","e",
                                                "d",")">> (* AI fix rejected (functions deleted) *))
    /\ LastFix.result.fixed_code # Strip(clean_code_string(CandGuarded))

\* C5 as the spec states it: whenever the session holds a trace and has not
\* ended in success, it holds one patch record fewer than traces.
C5_OnePatchFewer ==
    (InSession /\ Len(Traces) >= 1 /\ ~(pc = "done" /\ session.success))
       => Len(Patches) = Len(Traces) - 1

\* C5, amended: the session holds one patch record fewer than traces from the
\* append of a trace until the patch record of that iteration is appended (and
\* for good once a trace succeeded), and as many patch records as traces from
\* the append of a patch record until the next trace is appended.
C5_PatchesFollowTraces ==
    InSession =>
       /\ pc \in {"patch", "done"} => Len(Patches) = Len(Traces) - 1
       /\ pc \in {"execute", "running", "crashed"} => Len(Patches) = Len(Traces)

\* the loop stands at its head after the patch of a failed iteration
C5_Witness ==
    /\ InSession
    /\ pc = "execute"
    /\ Len(Traces) = MaxIterations
    /\ Len(Patches) = MaxIterations

\* C6: the code_snapshot of the most recent trace is the fixed_code of the
\* patch record of the iteration before it, or the session's original code
\* when that trace is the first.
C6_TraceRunsRecordedPatch ==
    (InSession /\ Len(Traces) >= 1)
       => LET trace == Traces[Len(Traces)]
          IN IF trace.iteration = 1
               THEN trace.code_snapshot = session.original_code
             ELSE trace.code_snapshot = Patches[trace.iteration - 1].fixed_code

\* a step of run_in_docker failed in world w
Faulted(w) ==
    \/ w.write = "fault" \/ w.connect = "fault" \/ w.run # "ok"
    \/ w.wait # "exit" \/ w.logs = Fault \/ w.remove[1] = "fault"

\* C7: a call of run_in_docker in which the script write, the connection, the
\* container creation, wait, logs, kill or remove failed returns a trace with
\* success False, an error_type and a non-empty output.
C7_FaultsReturnFailedTrace ==
    (pc = "returned" /\ last_run # <<>> /\ Faulted(LastRun.world))
       => /\ ~LastRun.result.trace.success
          /\ LastRun.result.trace.error_type # None
          /\ Len(LastRun.result.trace.output) > 0

\* kill failed in the handler of a wait that timed out, and the call returned
\* a SandboxError trace
C7_Witness ==
    /\ pc = "returned" /\ last_run # <<>>
    /\ LastRun.world.wait = "timeout"
    /\ LastRun.world.kill = "fault"
    /\ LastRun.result.calls[Len(LastRun.result.calls) - 1] = "kill"
    /\ LastRun.result.trace.error_type = <<"S","a","n","d","b","o","x","E","r","r","o","r">>
                                           (* SandboxError *)

\* the advisory service was unreachable, timed out, answered with a status
\* other than 200 or with a body that is no well-formed object
Unusable(reply) ==
    \/ reply.fault # "none"
    \/ reply.status_code # 200
    \/ reply.body # "object"
    \/ reply.response \in {"nontext", "malformed", "value"}

\* C8: when the advisory service is unreachable, times out, answers with a
\* status other than 200 or with a body that is no well-formed JSON object,
\* get_ai_fix returns the program apply_basic_fix returns.
C8_UnusableAnswerFallsBack ==
    (pc = "returned" /\ last_fix # <<>> /\ Unusable(LastFix.reply))
       => LastFix.result.fixed_code
            = apply_basic_fix(LastFix.bad_code, LastFix.error_log).fixed_code

\* the service timed out and the fallback's program, which differs from the
\* input, was returned
C8_Witness ==
    /\ pc = "returned" /\ last_fix # <<>>
    /\ LastFix.reply.fault = "Timeout"
    /\ LastFix.result.fixed_code # LastFix.bad_code
    /\ StartsWith(LastFix.result.explanation, <<"A","I"," ","t","i","m","e","o","u","t"," ",
                                                "-"," ">> (* AI timeout -  *))

\* C9: for a non-empty program, get_ai_fix returns a non-empty program, a
\* non-empty explanation and a non-empty reasoning, whatever the advisory
\* service does.
C9_NothingEmptyReturned ==
    (pc = "returned" /\ last_fix # <<>> /\ Len(LastFix.bad_code) > 0)
       => /\ IsText(LastFix.result.fixed_code) /\ Len(LastFix.result.fixed_code) > 0
          /\ IsText(LastFix.result.explanation) /\ Len(LastFix.result.explanation) > 0
          /\ IsText(LastFix.result.reasoning) /\ Len(LastFix.result.reasoning) > 0

\* C10: when wait times out, run_in_docker returns a TimeoutError trace with
\* success False, the container was killed and removed, and the logs were
\* not read.
C10_TimeoutYieldsTimeoutError ==
    (/\ pc = "returned" /\ last_run # <<>>
     /\ LastRun.world.write = "ok" /\ LastRun.world.connect = "ok"
     /\ LastRun.world.run = "ok" /\ LastRun.world.wait = "timeout")
       => /\ ~LastRun.result.trace.success
          /\ LastRun.result.trace.error_type = <<"T","i","m","e","o","u","t","E","r","r",
                                                 "o","r">> (* TimeoutError *)
          /\ "kill" \in Range(LastRun.result.calls)
          /\ LastRun.result.container = "removed"
          /\ "logs" \notin Range(LastRun.result.calls)

\* C11: when the sandboxed process exits with status 137, its logs are read
\* and its container is removed, the returned trace is a failure whose output
\* contains the out-of-memory diagnostic the executor appends, and its
\* error_type is MemoryError.
C11_OomKillIsMemoryError ==
    (/\ pc = "returned" /\ last_run # <<>>
     /\ ExitedWith(LastRun.world, 137)
     /\ LastRun.world.logs # Fault
     /\ LastRun.world.remove[1] = "ok")
       => /\ ~LastRun.result.trace.success
          /\ Contains(LastRun.result.trace.output,
                      <<"S","Y","S","T","E","M"," ","A","L","E","R","T",":"," ","P","r","o",
                        "c","e","s","s"," ","w","a","s"," ","k","i","l","l","e","d"," ","b",
                        "y"," ","t","h","e"," ","K","e","r","n","e","l"," ","(","O","u","t",
                        " ","o","f"," ","M","e","m","o","r","y",")",".">>
                        (* SYSTEM ALERT: Process was killed by the Kernel (Out of Memory). *))
          /\ LastRun.result.trace.error_type = <<"M","e","m","o","r","y","E","r","r","o",
                                                 "r">> (* MemoryError *)

\* the most recent call of a function without effects
LastCall == last_call[1]

\* the text holds a substring of the form <Identifier>Error:
NamesError(error_log) == SearchSuffixed(error_log, <<"E","r","r","o","r">> (* Error *)) # None

\* the text holds a memory-kill signature
MemoryKilled(error_log) ==
    Contains(error_log, <<"1","3","7">> (* 137 *)) \/ Contains(error_log, <<"O","u","t"," ",
                                                                            "o","f"," ","M",
                                                                            "e","m","o","r",
                                                                            "y">> (* Out of Memory *))

\* C12: parse_error_type applied to a text that holds both a memory-kill
\* signature ("137" or "Out of Memory") and a substring of the form
\* <Identifier>Error: returns MemoryError.
C12_MemoryKillOutranksError ==
    (/\ pc = "returned" /\ last_call # <<>>
     /\ MemoryKilled(LastCall.error_log)
     /\ NamesError(LastCall.error_log))
       => LastCall.result = <<"M","e","m","o","r","y","E","r","r","o","r">> (* MemoryError *)

\* the division scenario with its division guarded by the ZeroDivisionError
\* rule of apply_basic_fix
GuardedDivision ==
    <<"t","r","y",":","\n"," "," "," "," ","x","=","1","0","0",";"," ","y","=","0",";"," ",
      "p","r","i","n","t","(","x","/","y",")","\n","e","x","c","e","p","t"," ","Z","e","r",
      "o","D","i","v","i","s","i","o","n","E","r","r","o","r",":","\n"," "," "," "," ","p",
      "r","i","n","t","(","\"","E","r","r","o","r",":"," ","D","i","v","i","s","i","o","n",
      " ","b","y"," ","z","e","r","o","\"",")">>
      (* try:\n    x=100; y=0; print(x/y)\nexcept ZeroDivisionError:\n    print(\"Error: Division by zero\") *)

\* the session of the division scenario stands after its second run: the
\* first run ended in the ZeroDivisionError traceback, the advisory service
\* was unavailable for the one patch, and the second run exited with 0
DivisionScenario ==
    /\ InSession
    /\ session.original_code = ProgDivision
    /\ Len(Traces) = 2
    /\ Len(Patches) = 1
    /\ Traces[1].stack_trace = LogDivision
    /\ last_fix # <<>>
    /\ LastFix.reply.fault # "none"
    /\ ExitedWith(LastRun.world, 0)
    /\ LastRun.world.logs # Fault
    /\ LastRun.world.remove[1] = "ok"

\* C13: with the advisory service unavailable, the session for
\* x=100; y=0; print(x/y) whose first run raises ZeroDivisionError and whose
\* second run exits with 0 takes two iterations: the first trace fails with
\* error_type ZeroDivisionError, the one patch is the try/except-guarded
\* variant of apply_basic_fix, the second trace runs that variant and
\* succeeds, and the session ends in success with total_iterations = 2 and
\* one patch record.
C13_DivisionRepairedInTwo ==
    DivisionScenario
       => /\ ~Traces[1].success
          /\ Traces[1].error_type = <<"Z","e","r","o","D","i","v","i","s","i","o","n","E",
                                      "r","r","o","r">> (* ZeroDivisionError *)
          /\ Patches[1].original_code = ProgDivision
          /\ Patches[1].fixed_code = GuardedDivision
          /\ Traces[2].code_snapshot = GuardedDivision
          /\ Traces[2].success
          /\ pc = "done"
          /\ session.success
          /\ session.final_code = GuardedDivision
          /\ session.total_iterations = 2

\* the session of the division scenario ended in success on the guarded
\* variant after two runs
C13_Witness ==
    /\ DivisionScenario
    /\ pc = "done"
    /\ Traces[2].success
    /\ Traces[2].code_snapshot = GuardedDivision
    /\ Contains(Traces[2].output, <<"E","r","r","o","r",":"," ","D","i","v","i","s","i","o",
                                    "n"," ","b","y"," ","z","e","r","o">> (* Error: Division by zero *))

\* the trace reports a fault of the infrastructure: the script could not be
\* written, the backend was unreachable, the image was missing, or a call of
\* the backend raised
InfrastructureFault(trace) ==
    trace.error_type \in {<<"I","O","E","r","r","o","r">> (* IOError *), <<"D","o","c","k",
                                                                           "e","r","C","o",
                                                                           "n","n","e","c",
                                                                           "t","i","o","n",
                                                                           "E","r","r","o",
                                                                           "r">> (* DockerConnectionError *),
                          <<"I","m","a","g","e","N","o","t","F","o","u","n","d","E","r","r",
                            "o","r">> (* ImageNotFoundError *), <<"S","a","n","d","b","o",
                                                                  "x","E","r","r","o","r">> (* SandboxError *)}

\* C14: a session whose sandbox runs keep failing with an infrastructure
\* fault terminates aborted, with success False and a non-empty
\* failure_reason.  Stated for a session all of whose MaxIterations runs ended
\* in such a fault, once the patch step of the last one is over.
C14_PersistentFaultAborts ==
    (/\ InSession
     /\ Len(Traces) = MaxIterations
     /\ \A i \in 1..Len(Traces) : InfrastructureFault(Traces[i])
     /\ pc # "patch")
       => /\ pc # "execute"
          /\ ~session.success
          /\ session.failure_reason # None
          /\ Len(session.failure_reason) > 0

\* the lines that result from applying the edits to the lines from line l
\* on (l = 0: from the head of the text on): a line a delete edit names is
\* dropped, a line a replace edit names becomes its new_content, every other
\* line is kept, and the contents of the insert edits with after_line l
\* follow line l in the order of the edits
RECURSIVE ApplyEdits(_, _, _)
ApplyEdits(lines, edits, l) ==
    IF l > Len(lines) THEN <<>>
    ELSE (IF l = 0 \/ \E n \in DOMAIN edits :
                         edits[n].type = "delete" /\ edits[n].line = l
            THEN <<>>
          ELSE IF \E n \in DOMAIN edits : edits[n].type = "replace" /\ edits[n].line = l
            THEN <<edits[CHOOSE n \in DOMAIN edits :
                           edits[n].type = "replace" /\ edits[n].line = l].new_content>>
          ELSE <<lines[l]>>)
         \o [n \in DOMAIN SelectSeq(edits, LAMBDA e : e.type = "insert" /\ e.after_line = l)
               |-> SelectSeq(edits, LAMBDA e : e.type = "insert" /\ e.after_line = l)[n].content]
         \o ApplyEdits(lines, edits, l + 1)

\* C15: the edits of generate_line_edits(original, candidate), applied to the
\* lines of original, reproduce the lines of candidate.
C15_EditsReproduceCandidate ==
    (pc = "returned" /\ last_call # <<>>)
       => ApplyEdits(SplitLines(LastCall.original), LastCall.edits, 0)
            = SplitLines(LastCall.fixed)

\* the candidate of the answer as get_ai_fix reads it: the fixed_code member,
\* the program itself when the answer has none, after clean_code_string
Candidate(call) == clean_code_string(GetOr(call.reply.fixed_code, call.bad_code))

\* the answer is well-formed and its candidate passed the checks of the
\* class and function names
PassedNameChecks(call) ==
    /\ Answered(call.reply)
    /\ IsText(GetOr(call.reply.fixed_code, call.bad_code))
    /\ \A keyword \in {<<"c","l","a","s","s">> (* class *), <<"d","e","f">> (* def *)} :
          \/ DeclaredNames(call.bad_code, 1, keyword) = {}
          \/ DeclaredNames(call.bad_code, 1, keyword)
               \cap DeclaredNames(Candidate(call), 1, keyword) # {}

\* C16: a candidate that passed the name checks is turned down, and the
\* program of apply_basic_fix returned in its place, exactly when ten times
\* its stripped length is below three times the stripped length of the
\* program; otherwise the stripped candidate is returned with the answer's
\* explanation.
C16_LengthGuardAtThirtyPercent ==
    (pc = "returned" /\ last_fix # <<>> /\ PassedNameChecks(LastFix))
       => IF 10 * Len(Strip(Candidate(LastFix))) < 3 * Len(Strip(LastFix.bad_code))
            THEN /\ LastFix.result.fixed_code
                      = apply_basic_fix(LastFix.bad_code, LastFix.error_log).fixed_code
                 /\ StartsWith(LastFix.result.explanation,
                               <<"A","I"," ","f","i","x"," ","r","e","j","e","c","t","e",
                                 "d"," ","(","t","o","o"," ","m","u","c","h"," ","c","o",
                                 "d","e"," ","d","e","l","e","t","e","d",")"," ","-"," ">>
                                 (* AI fix rejected (too much code deleted) -  *))
          ELSE /\ LastFix.result.fixed_code = Strip(Candidate(LastFix))
               /\ LastFix.result.explanation
                    = GetOr(LastFix.reply.explanation, <<"A","I"," ","p","r","o","v","i",
                                                         "d","e","d"," ","f","i","x">> (* AI provided fix *))

\* a candidate of 3 characters for a program of 10 was accepted
C16_Witness ==
    /\ pc = "returned" /\ last_fix # <<>>
    /\ PassedNameChecks(LastFix)
    /\ Len(Strip(LastFix.bad_code)) = 10
    /\ Len(Strip(Candidate(LastFix))) = 3
    /\ LastFix.result.fixed_code = <<"1","/","0">> (* 1/0 *)

\* the text is empty or holds white space only
Blank(error_log) == Len(Strip(error_log)) = 0

\* no <Identifier>Error:, Exception: or Warning: pattern and no timeout,
\* out-of-memory or module-not-found marker matches the text
Unmatched(error_log) ==
    /\ \A suffix \in {<<"E","r","r","o","r">> (* Error *), <<"E","x","c","e","p","t","i",
                                                             "o","n">> (* Exception *), <<
                                                                                          "W",
                                                                                          "a",
                                                                                          "r",
                                                                                          "n",
                                                                                          "i",
                                                                                          "n",
                                                                                          "g">> (* Warning *)} :
          SearchSuffixed(error_log, suffix) = None
    /\ ~Contains(Upper(error_log), <<"T","I","M","E","O","U","T">> (* TIMEOUT *))
    /\ ~MemoryKilled(error_log)
    /\ ~Contains(error_log, <<"N","o"," ","m","o","d","u","l","e"," ","n","a","m","e","d">>
                              (* No module named *))

\* C17 as the spec states it: parse_error_type returns a category for every
\* text, and RuntimeError whenever no pattern and no marker matches.
C17_DefaultsToRuntimeError ==
    (pc = "returned" /\ last_call # <<>>)
       => /\ Len(LastCall.result) > 0
          /\ Unmatched(LastCall.error_log) => LastCall.result = <<"R","u","n","t","i","m",
                                                                  "e","E","r","r","o","r">> (* RuntimeError *)

\* C17, amended: parse_error_type returns a category for every text:
\* UnknownError for the empty and the white-space-only text, and RuntimeError
\* for every other text that no pattern and no marker matches.
C17_BlankIsUnknownElseRuntimeError ==
    (pc = "returned" /\ last_call # <<>>)
       => /\ Len(LastCall.result) > 0
          /\ Blank(LastCall.error_log) => LastCall.result = <<"U","n","k","n","o","w","n",
                                                              "E","r","r","o","r">> (* UnknownError *)
          /\ (~Blank(LastCall.error_log) /\ Unmatched(LastCall.error_log))
                => LastCall.result = <<"R","u","n","t","i","m","e","E","r","r","o","r">> (* RuntimeError *)

\* a text with the word Error: but no identifier before it was classified
\* as RuntimeError
C17_Witness ==
    /\ pc = "returned" /\ last_call # <<>>
    /\ ~Blank(LastCall.error_log)
    /\ Unmatched(LastCall.error_log)
    /\ Contains(LastCall.error_log, <<"E","r","r","o","r",":">> (* Error: *))
    /\ LastCall.result = <<"R","u","n","t","i","m","e","E","r","r","o","r">> (* RuntimeError *)

C19_StagedScriptIsExclusive ==
    \A s \in 1..MaxSessions :
       /\ inflight[s].pc \in {"written", "running"} => script = inflight[s].code
       /\ inflight[s].ran # None => inflight[s].ran = inflight[s].code

\* C20: when the patch step of a failed iteration returned a program
\* identical to the one that failed, the loop has ended: main does not stand
\* at the head of the loop to run the unchanged program again.
C20_UnchangedPatchEndsLoop ==
    (/\ InSession
     /\ Len(Patches) >= 1
     /\ Len(Patches) = Len(Traces)
     /\ Patches[Len(Patches)].fixed_code = Patches[Len(Patches)].original_code)
       => ~(pc = "execute" /\ current_code = Patches[Len(Patches)].original_code)

\* C21: a trace with an infrastructure category does not abort the session;
\* the patch step that follows it is a full patch cycle: get_ai_fix is called
\* on the code that ran, one patch record of that iteration is appended, the
\* candidate it returned (as clean_code_string leaves it) becomes the current
\* code, and main stands at the head of the loop again.
C21_InfrastructureFaultIsPatched ==
    [][(pc = "patch" /\ InfrastructureFault(LastTrace))
          => /\ pc' = "execute"
             /\ last_fix'[1].bad_code = current_code
             /\ session'.patch_logs
                  = Append(Patches, NewPatch(iteration, current_code, last_fix'[1].result))
             /\ current_code' = NextCode(last_fix'[1].result)]_vars

\* the error log names none of the categories apply_basic_fix has a rule
\* that rewrites the program for
NoMechanicalFix(error_log) ==
    /\ ~Contains(error_log, <<"Z","e","r","o","D","i","v","i","s","i","o","n","E","r","r",
                              "o","r">> (* ZeroDivisionError *))
    /\ ~Contains(error_log, <<"N","a","m","e","E","r","r","o","r">> (* NameError *))
    /\ ~Contains(error_log, <<"I","n","d","e","n","t","a","t","i","o","n","E","r","r","o",
                              "r">> (* IndentationError *))
    /\ ~Contains(error_log, <<"u","n","e","x","p","e","c","t","e","d"," ","i","n","d","e",
                              "n","t">> (* unexpected indent *))
    /\ ~Contains(error_log, <<"M","o","d","u","l","e","N","o","t","F","o","u","n","d","E",
                              "r","r","o","r">> (* ModuleNotFoundError *))
    /\ ~Contains(error_log, <<"N","o"," ","m","o","d","u","l","e"," ","n","a","m","e","d">>
                              (* No module named *))

\* C22: for an error log of a category without a mechanical fix,
\* apply_basic_fix returns the program unchanged with an explanation that
\* states manual review.  Stated on the calls of get_ai_fix the advisory
\* service answers with a status other than 200, which return what
\* apply_basic_fix returned.
C22_NoFixAsksForManualReview ==
    (/\ pc = "returned" /\ last_fix # <<>>
     /\ LastFix.reply.fault = "none" /\ LastFix.reply.status_code # 200
     /\ NoMechanicalFix(LastFix.error_log))
       => /\ LastFix.result.fixed_code = LastFix.bad_code
          /\ Contains(Lower(LastFix.result.explanation), <<"m","a","n","u","a","l"," ","r",
                                                           "e","v","i","e","w">> (* manual review *))

\* the records of the session are numbered in the order of their append, and
\* the patch records never run ahead of the traces
Ordered ==
    InSession =>
       /\ \A i \in 1..Len(Traces) : Traces[i].iteration = i
       /\ \A j \in 1..Len(Patches) : Patches[j].iteration = j
       /\ Len(Patches) \in {Len(Traces) - 1, Len(Traces)}

\* C23: the i-th trace has iteration i and the j-th patch record iteration j;
\* a patch record is appended only when the trace of its iteration is the
\* last record of the session, and a trace is appended only when every
\* earlier iteration has its patch record and the code that runs is the code
\* the last patch left as current_code.
C23_RecordsOrderedByIteration ==
    [][/\ Ordered'
       /\ (InSession /\ Len(session'.patch_logs) > Len(Patches))
             => /\ session'.patch_logs = Append(Patches, session'.patch_logs[Len(Patches) + 1])
                /\ session'.execution_traces = Traces
                /\ Len(Patches) = Len(Traces) - 1
       /\ (InSession /\ Len(session'.execution_traces) > Len(Traces))
             => /\ session'.execution_traces
                     = Append(Traces, session'.execution_traces[Len(Traces) + 1])
                /\ session'.patch_logs = Patches
                /\ Len(Patches) = Len(Traces)
                /\ session'.execution_traces[Len(Traces) + 1].code_snapshot = current_code
                /\ Len(Patches) >= 1 => current_code = NextCode(LastFix.result)]_vars

\* the trace of the second iteration stands between the patch record of the
\* first iteration and that of the second
C23_Witness ==
    /\ InSession
    /\ pc = "patch"
    /\ Len(Traces) = MaxIterations
    /\ Len(Patches) = MaxIterations - 1
    /\ Patches[Len(Patches)].iteration = MaxIterations - 1
    /\ Traces[Len(Traces)].iteration = MaxIterations

\* the function and class names a text declares
Declared(code) == DeclaredNames(code, 1, <<"d","e","f">> (* def *)) \cup DeclaredNames(code, 1, <<
                                                                                                  "c",
                                                                                                  "l",
                                                                                                  "a",
                                                                                                  "s",
                                                                                                  "s">>
                                                                                                  (* class *))

\* C24: a candidate that keeps at least one of the function and class names
\* the program declares and is not below the length threshold is accepted:
\* get_ai_fix returns the candidate, stripped.
C24_OneSurvivingNameSuffices ==
    (/\ pc = "returned" /\ last_fix # <<>>
     /\ Answered(LastFix.reply)
     /\ IsText(LastFix.reply.fixed_code)
     /\ Declared(LastFix.bad_code) \cap Declared(Candidate(LastFix)) # {}
     /\ ~TooMuchDeleted(LastFix.bad_code, Candidate(LastFix)))
       => LastFix.result.fixed_code = Strip(Candidate(LastFix))

\* the session holds a successful trace
Succeeded == InSession /\ \E i \in 1..Len(Traces) : Traces[i].success

\* a successful trace is the last record of a session that ended in success
\* on the code of that trace
SuccessIsLast ==
    InSession =>
       \A i \in 1..Len(Traces) :
          Traces[i].success
             => /\ i = Len(Traces)
                /\ pc = "done"
                /\ session.success
                /\ session.final_code = Traces[i].code_snapshot
                /\ Len(Patches) = i - 1

\* C25: a successful trace is terminal.  In the state its append leaves and
\* ever after, the session has success True and the trace's code_snapshot as
\* final_code, the trace is the last one and the only successful one, and no
\* step runs the sandbox, asks for a patch or changes the session.
C25_SuccessIsTerminal ==
    [][/\ SuccessIsLast'
       /\ Succeeded => UNCHANGED <<session, current_code, iteration, pc,
                                   containers, last_run, last_fix>>]_vars

\* a session that succeeded on the run of its first patch
C25_Witness ==
    /\ Succeeded
    /\ Len(Traces) = MaxIterations
    /\ ~Traces[1].success
    /\ session.success
    /\ session.final_code = Traces[MaxIterations].code_snapshot
    /\ session.final_code = NextCode(LastFix.result)

\* a step of a session leaves the records the session holds, and its
\* original_code, as they are
RecordsKept ==
    /\ Len(session'.execution_traces) >= Len(Traces)
    /\ Len(session'.patch_logs) >= Len(Patches)
    /\ \A i \in 1..Len(Traces) : session'.execution_traces[i] = Traces[i]
    /\ \A j \in 1..Len(Patches) : session'.patch_logs[j] = Patches[j]
    /\ session'.original_code = session.original_code

\* C26: records are immutable once produced.  The session starts with the
\* submitted input as original_code and no step changes it; no step changes
\* a trace or a patch record the session holds; and the trace a step appends
\* is the trace run_in_docker returned, field by field.
C26_RecordsAreImmutable ==
    [][/\ (pc = "idle" /\ pc' = "execute") => session'.original_code = current_code'
       /\ InSession => RecordsKept
       /\ (InSession /\ Len(session'.execution_traces) > Len(Traces))
             => session'.execution_traces[Len(Traces) + 1] = last_run'[1].result.trace]_vars

\* C27: run_in_docker returns a trace with error_type "TimeoutError" only
\* when the container was started and container.wait ran into its deadline.
C27_TimeoutErrorOnlyOnTimeout ==
    (/\ pc = "returned" /\ last_run # <<>>
     /\ LastRun.result.trace.error_type = <<"T","i","m","e","o","u","t","E","r","r","o",
                                            "r">> (* TimeoutError *))
       => /\ LastRun.world.write = "ok" /\ LastRun.world.connect = "ok"
          /\ LastRun.world.run = "ok"
          /\ LastRun.world.wait = "timeout"

\* C28: a trace run_in_docker returns has no error_type when it is
\* successful and a non-empty error_type when it is not, so that the default
\* of line 1615 (trace.error_type or "UnknownError") never applies.
C28_FailureHasCategory ==
    (pc = "returned" /\ last_run # <<>>)
       => /\ LastRun.result.trace.success
               => LastRun.result.trace.error_type = None
          /\ ~LastRun.result.trace.success
               => /\ LastRun.result.trace.error_type # None
                  /\ Len(LastRun.result.trace.error_type) > 0

\* a run that exited with a status other than zero and was given the
\* category its log names
C28_Witness ==
    /\ pc = "returned" /\ last_run # <<>>
    /\ ExitedWith(LastRun.world, 1)
    /\ LastRun.world.logs = LogName
    /\ ~LastRun.result.trace.success
    /\ LastRun.result.trace.error_type = <<"N","a","m","e","E","r","r","o","r">> (* NameError *)

\* C29: once the trace of the current iteration is appended (that is, in
\* every state but those of a sandbox run under way), and in every state main
\* ends in, total_iterations is the number of traces and the iteration of the
\* last trace.
C29_IterationsCountTraces ==
    (InSession /\ Len(Traces) >= 1 /\ pc # "running")
       => /\ session.total_iterations = Len(Traces)
          /\ Traces[Len(Traces)].iteration = session.total_iterations
          /\ session.total_iterations = iteration

\* a session that ended in success on its second run, and one that ended
\* with the exception of line 1656 in its second patch step
C29_Witness ==
    /\ InSession
    /\ pc \in {"done", "crashed"}
    /\ Len(Traces) = MaxIterations
    /\ session.total_iterations = MaxIterations
    /\ Traces[MaxIterations].iteration = MaxIterations

\* C30: every patch record is made against the code that ran in its
\* iteration: its original_code is the code_snapshot of the trace with its
\* iteration number, that trace is a failure, and the error output handed to
\* get_ai_fix with that code is the output main reads from that trace and is
\* not blank.
C30_PatchRepairsWhatRan ==
    InSession =>
       /\ \A j \in 1..Len(Patches) :
             /\ Patches[j].iteration \in 1..Len(Traces)
             /\ Patches[j].original_code = Traces[Patches[j].iteration].code_snapshot
             /\ ~Traces[Patches[j].iteration].success
       /\ Len(Patches) >= 1
             => /\ LastFix.bad_code = Patches[Len(Patches)].original_code
                /\ LastFix.error_log = ErrorOutput(Traces[Len(Patches)])
                /\ Len(Strip(LastFix.error_log)) > 0

\* a session with two patch records made against two different programs
C30_Witness ==
    /\ InSession
    /\ Len(Patches) = MaxIterations
    /\ Patches[1].original_code # Patches[MaxIterations].original_code
    /\ Patches[MaxIterations].original_code = Traces[MaxIterations].code_snapshot
    /\ ~Traces[MaxIterations].success

=============================================================================
